---- MODULE Spec2Model ----
(***************************************************************************)
(* StayUpToDo-Laundry backend: the Machine entity (models/machine.py), its *)
(* history entries and annotation, the in-memory registry (storage.py) and *)
(* the request handlers that call them (resources/machine.py).             *)
(*                                                                         *)
(* Python values are represented as follows.                               *)
(*   str            a TLA+ string, except machine ids, which are tuples of *)
(*                  one-character strings so that they can be scanned      *)
(*   x | None       None is <<>>, a present value v is <<v>>               *)
(*   dict (JSON)    a function whose DOMAIN is the set of keys present     *)
(*   list           a sequence                                             *)
(*   raise / return [ok |-> FALSE, error |-> e] / [ok |-> TRUE, value |-> v]*)
(*   dict of the registry: a sequence of [key, value] in insertion order   *)
(* Handlers run one at a time (one action per handler) in every            *)
(* specification but SpecShared.  A machine is only ever stored under its  *)
(* own id and no handler keeps a reference between two requests, so there  *)
(* registry values are held as records.  SpecShared holds the machines as  *)
(* objects on a heap and runs a handler step by step.  SpecMonitor is the  *)
(* chat monitor (telegram_monitor.py) as a client of the handlers; chat    *)
(* texts are tuples of characters, like machine ids.  SpecPoll is the      *)
(* monitor's polling loop around it.                                       *)
(***************************************************************************)
EXTENDS Integers, Sequences, FiniteSets, TLC

VARIABLES
    machines,   \* MachineStorage._machines
    now,        \* the last instant returned by datetime.now()
    request,    \* the call being served: operation and arguments
    response,   \* what it returned: None until it has
    calls,      \* the update_status calls (SpecShared: the calls; SpecMonitor:
                \* the HTTP requests of the current message) made so far
    heap,       \* SpecShared: the Machine objects, by reference;
                \* SpecPoll: the TelegramMonitor object and its poll
    frames      \* SpecShared: the local variables of each thread;
                \* SpecMonitor, SpecPoll: those of process_message

vars == <<machines, now, request, response, calls, heap, frames>>

----
\* Bounds of the model.
MaxHist == 1       \* longest status history a registry machine may grow to
MaxClock == 1      \* the clock reads 0..MaxClock half-seconds
MaxCalls == 2      \* update_status calls on the machine under test
MaxLen == 2        \* longest history of a machine drawn for serialisation

----
\* Optional values.
None == <<>>
Some(v) == <<v>>
IsNone(x) == x = <<>>
Get(x) == x[1]

Ok(v) == [ok |-> TRUE, value |-> v]
Raise(e) == [ok |-> FALSE, error |-> e]

\* Last element of a non-empty sequence.
Last(s) == s[Len(s)]

\* s is a prefix of t.
IsPrefix(s, t) == Len(s) <= Len(t) /\ SubSeq(t, 1, Len(s)) = s

\* The elements of a sequence.
Range(s) == {s[i] : i \in 1..Len(s)}

----
\* types/enums.py
MachineStatus == {"AVAILABLE", "PAID_FOR", "IN_USE", "PENDING_UNLOAD", "OUT_OF_ORDER"}

\* The .value of a MachineStatus member: its wire tag.
StatusValue(s) ==
    CASE s = "AVAILABLE" -> "available"
      [] s = "PAID_FOR" -> "paidFor"
      [] s = "IN_USE" -> "inUse"
      [] s = "PENDING_UNLOAD" -> "pendingUnload"
      [] s = "OUT_OF_ORDER" -> "outOfOrder"

\* MachineStatus lookup that falls back to AVAILABLE for an unknown tag.
MachineStatusOf_Lenient(tag) ==
    IF \E s \in MachineStatus : StatusValue(s) = tag
    THEN Ok(CHOOSE s \in MachineStatus : StatusValue(s) = tag)
    ELSE Ok("AVAILABLE")

\* MachineStatus(tag): lookup by value, ValueError when no member has it.
MachineStatusOf(tag) ==
    IF \E s \in MachineStatus : StatusValue(s) = tag
    THEN Ok(CHOOSE s \in MachineStatus : StatusValue(s) = tag)
    ELSE Raise("ValueError")

MachineType == {"WASHER", "DRYER"}

\* The .value of a MachineType member.
TypeValue(t) == IF t = "WASHER" THEN "washer" ELSE "dryer"

----
\* Decimal digits of a natural number, as str(n) / f'{n}' produce them.
Digit(d) ==
    CASE d = 0 -> "0" [] d = 1 -> "1" [] d = 2 -> "2" [] d = 3 -> "3"
      [] d = 4 -> "4" [] d = 5 -> "5" [] d = 6 -> "6" [] d = 7 -> "7"
      [] d = 8 -> "8" [] d = 9 -> "9"

RECURSIVE Str(_)
Str(n) == IF n < 10 THEN <<Digit(n)>> ELSE Str(n \div 10) \o <<Digit(n % 10)>>

Digits == {"0", "1", "2", "3", "4", "5", "6", "7", "8", "9"}

\* Value of a non-empty string of decimal digits.
RECURSIVE IntOf(_)
IntOf(s) ==
    LET DigitValue(c) == CHOOSE d \in 0..9 : Digit(d) = c
    IN  IF Len(s) = 1 THEN DigitValue(s[1])
        ELSE 10 * IntOf(SubSeq(s, 1, Len(s) - 1)) + DigitValue(s[Len(s)])

----
\* datetime: a naive instant with second and microsecond resolution.
DateTime(sec, us) == [second |-> sec, microsecond |-> us]

\* datetime.isoformat(): the fraction is written only when it is not zero.
isoformat(dt) ==
    IF dt.microsecond = 0
    THEN [seconds |-> dt.second, fraction |-> None]
    ELSE [seconds |-> dt.second, fraction |-> Some(dt.microsecond)]

\* datetime.fromisoformat(): a missing fraction reads as zero microseconds;
\* text that is not ISO 8601 raises ValueError.
fromisoformat(text) ==
    IF "seconds" \notin DOMAIN text THEN Raise("ValueError")
    ELSE IF IsNone(text.fraction) THEN Ok(DateTime(text.seconds, 0))
    ELSE Ok(DateTime(text.seconds, Get(text.fraction)))

\* Text that datetime.fromisoformat rejects.
NotIso == [garbage |-> "not-a-date"]

----
\* models/status_history.py
StatusHistoryEntry(status, timestamp, user) ==
    [status |-> status, timestamp |-> timestamp, user |-> user]

StatusHistoryEntry_to_dict(entry) ==
    [status |-> StatusValue(entry.status),
     timestamp |-> isoformat(entry.timestamp),
     user |-> entry.user]

StatusHistoryEntry_from_dict(data) ==
    IF ~({"status", "timestamp", "user"} \subseteq DOMAIN data) THEN Raise("KeyError")
    ELSE IF ~MachineStatusOf(data.status).ok THEN Raise("ValueError")
    ELSE IF ~fromisoformat(data.timestamp).ok THEN Raise("ValueError")
    ELSE Ok(StatusHistoryEntry(MachineStatusOf(data.status).value,
                               fromisoformat(data.timestamp).value,
                               data.user))

----
\* models/telegram_message.py
TelegramMessage(message, message_url) ==
    [message |-> message, message_url |-> message_url]

TelegramMessage_to_dict(tm) ==
    [message |-> tm.message, message_url |-> tm.message_url]

\* data['message'] must be present; data.get('message_url') defaults to None.
TelegramMessage_from_dict(data) ==
    IF "message" \notin DOMAIN data THEN Raise("KeyError")
    ELSE Ok(TelegramMessage(data.message,
                            IF "message_url" \in DOMAIN data
                            THEN data.message_url ELSE None))

----
\* models/machine.py
VALID_BLOCKS == {55, 57, 59}

MAX_RUN_TIME_SECONDS == 50 * 60

\* Machine.__init__ without the block check.
MachineInit_NoBlockCheck(id, block_number, status, status_history, estimated_finish_time, telegram_message) ==
    Ok([id |-> id,
        block_number |-> block_number,
        status |-> status,
        status_history |-> IF IsNone(status_history) THEN <<>> ELSE Get(status_history),
        estimated_finish_time |-> estimated_finish_time,
        telegram_message |-> telegram_message,
        remaining_time_seconds |-> None])

\* Machine.__init__: only block_number is validated.  status_history is
\* None (the default) or a list; `status_history or []` turns None and the
\* empty list into a fresh empty list.  remaining_time_seconds is not a
\* constructor field: it is the instance attribute the handlers assign
\* (resources/machine.py), absent until then.
MachineInit(id, block_number, status, status_history, estimated_finish_time, telegram_message) ==
    IF block_number \notin VALID_BLOCKS THEN Raise("ValueError")
    ELSE Ok([id |-> id,
             block_number |-> block_number,
             status |-> status,
             status_history |-> IF IsNone(status_history) THEN <<>> ELSE Get(status_history),
             estimated_finish_time |-> estimated_finish_time,
             telegram_message |-> telegram_message,
             remaining_time_seconds |-> None])

\* The estimated_finish_time setter: None is stored as is, any other value
\* must parse as ISO 8601, else ValueError and the field keeps its value.
set_estimated_finish_time(m, value) ==
    IF ~IsNone(value) /\ ~fromisoformat(Get(value)).ok THEN Raise("ValueError")
    ELSE Ok([m EXCEPT !.estimated_finish_time = value])

\* telegram_message setter that keeps the link of the annotation it replaces
\* when the new one has none.
set_telegram_message_KeepsUrl(m, message) ==
    IF ~IsNone(message) /\ ~IsNone(m.telegram_message)
       /\ IsNone(Get(message).message_url)
    THEN [m EXCEPT !.telegram_message =
             Some([Get(message) EXCEPT !.message_url = Get(m.telegram_message).message_url])]
    ELSE [m EXCEPT !.telegram_message = message]

\* The telegram_message setter.
set_telegram_message(m, message) ==
    [m EXCEPT !.telegram_message = message]

\* `machine.remaining_time_seconds = value`: Machine defines no such
\* property, so the assignment creates or rebinds a plain instance attribute.
set_remaining_time_seconds(m, value) ==
    [m EXCEPT !.remaining_time_seconds = Some(value)]

\* update_status that records nothing when the status does not change.
update_status_SkipsRepeat(m, new_status, user, t) ==
    IF m.status = new_status THEN m
    ELSE [m EXCEPT !.status = new_status,
                   !.status_history = Append(@, StatusHistoryEntry(new_status, t, user))]

\* update_status that keeps only the newest entry.
update_status_Overwrites(m, new_status, user, t) ==
    [m EXCEPT !.status = new_status,
              !.status_history = <<StatusHistoryEntry(new_status, t, user)>>]

\* update_status that also clears the time estimate of the finished cycle.
update_status_ClearsEstimate(m, new_status, user, t) ==
    [m EXCEPT !.status = new_status,
              !.status_history = Append(@, StatusHistoryEntry(new_status, t, user)),
              !.estimated_finish_time = None,
              !.remaining_time_seconds = None]

\* update_status that refuses to put a machine that is out of order back
\* into use.
update_status_Guarded(m, new_status, user, t) ==
    IF m.status = "OUT_OF_ORDER" /\ new_status = "IN_USE" THEN m
    ELSE [m EXCEPT !.status = new_status,
                   !.status_history = Append(@, StatusHistoryEntry(new_status, t, user))]

\* update_status that puts the new entry in front of the history.
update_status_Prepends(m, new_status, user, t) ==
    [m EXCEPT !.status = new_status,
              !.status_history = <<StatusHistoryEntry(new_status, t, user)>> \o @]

\* Machine.update_status, with t the instant datetime.now() returned.
update_status(m, new_status, user, t) ==
    [m EXCEPT !.status = new_status,
              !.status_history = Append(@, StatusHistoryEntry(new_status, t, user))]

\* to_dict that tests the annotation's text, not the annotation, for truth.
to_dict_FalsyMessage(m) ==
    [id |-> m.id,
     block_number |-> m.block_number,
     status |-> StatusValue(m.status),
     status_history |-> [i \in 1..Len(m.status_history) |->
                            StatusHistoryEntry_to_dict(m.status_history[i])],
     estimated_finish_time |-> m.estimated_finish_time,
     telegram_message |-> IF ~IsNone(m.telegram_message) /\ Get(m.telegram_message).message # ""
                          THEN Some(TelegramMessage_to_dict(Get(m.telegram_message)))
                          ELSE None]

\* Machine.to_dict: six keys; the remaining_time_seconds attribute is not
\* among them.
to_dict(m) ==
    [id |-> m.id,
     block_number |-> m.block_number,
     status |-> StatusValue(m.status),
     status_history |-> [i \in 1..Len(m.status_history) |->
                            StatusHistoryEntry_to_dict(m.status_history[i])],
     estimated_finish_time |-> m.estimated_finish_time,
     telegram_message |-> IF ~IsNone(m.telegram_message)
                          THEN Some(TelegramMessage_to_dict(Get(m.telegram_message)))
                          ELSE None]

\* Machine.from_dict: id, block_number, status and telegram_message are
\* indexed (KeyError when missing); status_history and
\* estimated_finish_time are read with .get().
from_dict(data) ==
    IF ~({"id", "block_number", "status", "telegram_message"} \subseteq DOMAIN data)
    THEN Raise("KeyError")
    ELSE
    LET hist == IF "status_history" \in DOMAIN data THEN data.status_history ELSE <<>>
        entries == [i \in 1..Len(hist) |-> StatusHistoryEntry_from_dict(hist[i])]
        est == IF "estimated_finish_time" \in DOMAIN data
               THEN data.estimated_finish_time ELSE None
        tm == IF IsNone(data.telegram_message) THEN Ok(None)
              ELSE LET r == TelegramMessage_from_dict(Get(data.telegram_message))
                   IN  IF r.ok THEN Ok(Some(r.value)) ELSE r
    IN  IF ~MachineStatusOf(data.status).ok THEN Raise("ValueError")
        ELSE IF \E i \in 1..Len(hist) : ~entries[i].ok
        THEN Raise((CHOOSE e \in {entries[i] : i \in 1..Len(hist)} : ~e.ok).error)
        ELSE IF ~tm.ok THEN tm
        ELSE MachineInit(data.id, data.block_number, MachineStatusOf(data.status).value,
                         Some([i \in 1..Len(hist) |-> entries[i].value]), est, tm.value)

\* int(text) for a string of digits, letters and minus signs: an optional
\* minus sign followed by one or more decimal digits converts; anything
\* else, the empty string included, raises ValueError.
int_str(text) ==
    LET body == IF Len(text) > 0 /\ text[1] = "-" THEN SubSeq(text, 2, Len(text)) ELSE text
    IN  IF Len(body) = 0 \/ ~(Range(body) \subseteq Digits) THEN Raise("ValueError")
        ELSE IF Len(text) > 0 /\ text[1] = "-" THEN Ok(0 - IntOf(body))
        ELSE Ok(IntOf(body))

\* The positions of the id that hold a type marker.
Markers(id) == {i \in 1..Len(id) : id[i] \in {"W", "D"}}

\* The index the loops of Machine.type and Machine.number return at.
FirstMarker(id) == CHOOSE i \in Markers(id) : \A j \in Markers(id) : i <= j

\* Machine.type: the first 'W' or 'D' of the id decides; ValueError when
\* the id has neither.
Machine_type(m) ==
    IF Markers(m.id) = {} THEN Raise("ValueError")
    ELSE IF m.id[FirstMarker(m.id)] = "W" THEN Ok("WASHER") ELSE Ok("DRYER")

\* Machine.number that reads the digits after the last marker.
Machine_number_LastMarker(m) ==
    IF Markers(m.id) = {} THEN Raise("ValueError")
    ELSE LET i == CHOOSE i \in Markers(m.id) : \A j \in Markers(m.id) : j <= i
         IN  int_str(SubSeq(m.id, i + 1, Len(m.id)))

\* Machine.number: int() of everything after the first marker; ValueError
\* when the id has no marker or int() rejects the rest.
Machine_number(m) ==
    IF Markers(m.id) = {} THEN Raise("ValueError")
    ELSE int_str(SubSeq(m.id, FirstMarker(m.id) + 1, Len(m.id)))

----
\* storage.py: the dict self._machines, in insertion order.
DictKeys(d) == {d[i].key : i \in 1..Len(d)}

DictIndex(d, k) == CHOOSE i \in 1..Len(d) : d[i].key = k

\* d.get(k)
DictGet(d, k) == IF k \in DictKeys(d) THEN Some(d[DictIndex(d, k)].value) ELSE None

\* d[k] = v: an existing key keeps its position, a new key goes last.
DictSet(d, k, v) ==
    IF k \in DictKeys(d)
    THEN [d EXCEPT ![DictIndex(d, k)] = [key |-> k, value |-> v]]
    ELSE Append(d, [key |-> k, value |-> v])

\* del d[k]
DictDel(d, k) == SelectSeq(d, LAMBDA e : e.key # k)

\* list(d.values())
DictValues(d) == [i \in 1..Len(d) |-> d[i].value]

\* self._machines.values(): a live view, which holds no items of its own.
dict_values == <<0>>

\* The items met when iterating what get_all returned: a list yields the
\* items it was built with, a view the values the dict has at that moment.
iterate(x, d) == IF x = dict_values THEN DictValues(d) ELSE x

\* get_all that returns the dict's live view.
get_all_LiveView(d) == dict_values

get_all(d) == DictValues(d)

\* get_by_id that answers an absent id with a fresh default machine.
get_by_id_Fabricates(d, machine_id) ==
    IF machine_id \in DictKeys(d) THEN DictGet(d, machine_id)
    ELSE Some(MachineInit(machine_id, 55, "AVAILABLE", None, None, None).value)

get_by_id(d, machine_id) == DictGet(d, machine_id)

\* create and update are the same keyed store under machine.id.
create(d, m) == DictSet(d, m.id, m)

\* update that stores the machine as a further entry.
update_Appends(d, m) == Append(d, [key |-> m.id, value |-> m])

update(d, m) == DictSet(d, m.id, m)

\* exists that never finds a machine.
exists_Never(d, machine_id) == FALSE

exists(d, machine_id) == machine_id \in DictKeys(d)

\* delete that reports success whether or not the id was there.
delete_AlwaysTrue(d, machine_id) ==
    [machines |-> DictDel(d, machine_id), ret |-> TRUE]

\* delete: the new dict and the boolean returned.
delete(d, machine_id) ==
    IF machine_id \in DictKeys(d)
    THEN [machines |-> DictDel(d, machine_id), ret |-> TRUE]
    ELSE [machines |-> d, ret |-> FALSE]

\* get_by_status with the comparison inverted.
get_by_status_Negated(d, status) ==
    DictValues(SelectSeq(d, LAMBDA e : e.value.status # status))

get_by_status(d, status) ==
    DictValues(SelectSeq(d, LAMBDA e : e.value.status = status))

get_by_block(d, block_number) ==
    DictValues(SelectSeq(d, LAMBDA e : e.value.block_number = block_number))

\* str.lower() on the type strings requests carry.
lower(text) ==
    CASE text = "Washer" -> "washer"
      [] text = "WASHER" -> "washer"
      [] text = "Dryer" -> "dryer"
      [] OTHER -> text

\* MachineStorage.get_by_type: 'W' for a string that lowers to "washer",
\* 'D' for every other string; the machines whose id contains that letter.
get_by_type(d, machine_type) ==
    LET type_char == IF lower(machine_type) = "washer" THEN "W" ELSE "D"
    IN  DictValues(SelectSeq(d, LAMBDA e : type_char \in Range(e.value.id)))

\* The inner loop with range(1, count).
FleetRange_StopsEarly(block, letter, count) ==
    [i \in 1..(count - 1) |->
        MachineInit(Str(block) \o <<letter>> \o Str(i), block, "AVAILABLE",
                    None, None, None).value]

\* The machines one inner loop of initialize_default_machines constructs:
\* ids f'{block}{letter}{i}' for i in range(1, count + 1).
FleetRange(block, letter, count) ==
    [i \in 1..count |->
        MachineInit(Str(block) \o <<letter>> \o Str(i), block, "AVAILABLE",
                    None, None, None).value]

\* The machines of one block: washers first, then dryers.
FleetBlock(block, washers, dryers) ==
    FleetRange(block, "W", washers) \o FleetRange(block, "D", dryers)

\* self._machines[machine.id] = machine for the machines ms[i..], in order.
\* The test on d1 makes each store be evaluated before the next one starts;
\* a store never yields an empty dict, so the recursion is always taken.
RECURSIVE StoreFrom(_, _, _)
StoreFrom(d, ms, i) ==
    IF i > Len(ms) THEN d
    ELSE LET d1 == DictSet(d, ms[i].id, ms[i])
         IN  IF Len(d1) = 0 THEN d1 ELSE StoreFrom(d1, ms, i + 1)

\* initialize_default_machines that leaves ids already registered alone.
initialize_default_machines_KeepsExisting(d, washers_55, washers_57, washers_59, dryers_55, dryers_57, dryers_59) ==
    LET ms == FleetBlock(55, washers_55, dryers_55)
              \o FleetBlock(57, washers_57, dryers_57)
              \o FleetBlock(59, washers_59, dryers_59)
    IN  [machines |-> StoreFrom(d, SelectSeq(ms, LAMBDA m : m.id \notin DictKeys(d)), 1),
         ret |-> ms]

\* initialize_default_machines: the new dict and the list returned.
initialize_default_machines(d, washers_55, washers_57, washers_59, dryers_55, dryers_57, dryers_59) ==
    LET ms == FleetBlock(55, washers_55, dryers_55)
              \o FleetBlock(57, washers_57, dryers_57)
              \o FleetBlock(59, washers_59, dryers_59)
    IN  [machines |-> StoreFrom(d, ms, 1), ret |-> ms]

\* The defaults of initialize_default_machines' keyword arguments.
DefaultWashers == 11
DefaultDryers == 6

----
\* The clock.  datetime.now() returns an instant no earlier than the last
\* one it returned; instants are half-second ticks 0..MaxClock.
Instant(tick) == DateTime(tick \div 2, (tick % 2) * 500000)

\* The ticks datetime.now() may return after it returned `tick`.
Readings(tick) == {t \in (0..MaxClock) : t >= tick}

----
\* Values requests are drawn from.
Id57W4 == <<"5", "7", "W", "4">>
Id55W1 == <<"5", "5", "W", "1">>
Id59D6 == <<"5", "9", "D", "6">>
Id55W12 == <<"5", "5", "W", "1", "2">>

----
\* SpecCtor: Machine.__init__ applied to every combination of arguments.

InitCtor ==
    /\ machines = <<>>
    /\ now = 0
    /\ calls = <<>>
    /\ heap = <<>>
    /\ frames = <<>>
    /\ response = None
    /\ request \in [op : {"Machine.__init__"}, id : {Id57W4, Id55W1, Id59D6},
                    block_number : {0, 5, 54, 55, 56, 57, 58, 59, 60, 557},
                    status : MachineStatus]

Construct ==
    /\ request.op = "Machine.__init__"
    /\ IsNone(response)
    /\ response' = Some(MachineInit(request.id, request.block_number, request.status,
                                    None, None, None))
    /\ UNCHANGED <<machines, now, request, calls, heap, frames>>

NextCtor == Construct

SpecCtor == InitCtor /\ [][NextCtor]_vars

----
\* SpecRoundTrip: to_dict then from_dict applied to every machine of a
\* bounded set of valid machines.

HistoryEntries ==
    {StatusHistoryEntry(s, Instant(t), u) :
        s \in {"IN_USE", "PENDING_UNLOAD"}, t \in {0, 1}, u \in {"alice", ""}}

\* All sequences over S of length at most n.
RECURSIVE SeqsUpTo(_, _)
SeqsUpTo(S, n) ==
    IF n = 0 THEN {<<>>}
    ELSE LET shorter == SeqsUpTo(S, n - 1)
         IN  shorter \cup {Append(q, x) : q \in {r \in shorter : Len(r) = n - 1}, x \in S}

\* Machines as the constructor and the handlers can leave them: finish
\* times are ISO 8601 texts; annotations come with and without a URL, and
\* with an empty text.
ValidMachines ==
    {[MachineInit(id, b, s, Some(h), e, a).value EXCEPT !.remaining_time_seconds = r] :
        id \in {Id57W4}, b \in {55, 57}, s \in MachineStatus,
        h \in SeqsUpTo(HistoryEntries, MaxLen),
        e \in {None, Some(isoformat(Instant(1))), Some(isoformat(Instant(2)))},
        a \in {None, Some(TelegramMessage("washer 4 is free", None)),
               Some(TelegramMessage("washer 4 is free", Some("https://t.me/c/1/2"))),
               Some(TelegramMessage("", None))},
        r \in {None, Some(300)}}

InitRoundTrip ==
    /\ machines = <<>>
    /\ now = 0
    /\ calls = <<>>
    /\ heap = <<>>
    /\ frames = <<>>
    /\ response = None
    /\ request \in [op : {"Machine.to_dict"}, machine : ValidMachines]

Serialize ==
    /\ request.op = "Machine.to_dict"
    /\ IsNone(response)
    /\ response' = Some(to_dict(request.machine))
    /\ UNCHANGED <<machines, now, request, calls, heap, frames>>

Deserialize ==
    /\ request.op = "Machine.to_dict"
    /\ ~IsNone(response)
    /\ request' = [request EXCEPT !.op = "Machine.from_dict"]
    /\ response' = Some(from_dict(Get(response)))
    /\ UNCHANGED <<machines, now, calls, heap, frames>>

NextRoundTrip == Serialize \/ Deserialize

SpecRoundTrip == InitRoundTrip /\ [][NextRoundTrip]_vars

----
\* SpecMachine: one Machine, constructed with the default (empty) history
\* and registered, then mutated through the reference the registry holds.
\* The registry's object is the object mutated, so a mutation is visible in
\* `machines` as soon as it is made.
InPlace(d, k, m) ==
    [i \in 1..Len(d) |-> IF d[i].key = k THEN [d[i] EXCEPT !.value = m] ELSE d[i]]

\* The machine under test.
TheMachine == Get(get_by_id(machines, Id57W4))

InitMachine ==
    /\ \E s \in MachineStatus :
          /\ machines = create(<<>>, MachineInit(Id57W4, 57, s, None, None, None).value)
          /\ request = [op |-> "Machine.__init__", status |-> s]
    /\ now = 0
    /\ calls = <<>>
    /\ heap = <<>>
    /\ frames = <<>>
    /\ response = None

MachineUpdateStatus(new_status, user) ==
    /\ Len(calls) < MaxCalls
    /\ \E t \in Readings(now) :
          /\ now' = t
          /\ machines' = InPlace(machines, Id57W4,
                                 update_status(TheMachine, new_status, user, Instant(t)))
    /\ calls' = Append(calls, [new_status |-> new_status, user |-> user])
    /\ request' = [op |-> "Machine.update_status", new_status |-> new_status, user |-> user]
    /\ response' = None
    /\ UNCHANGED <<heap, frames>>

MachineSetEstimatedFinishTime(value) ==
    LET r == set_estimated_finish_time(TheMachine, value)
    IN  /\ machines' = IF r.ok THEN InPlace(machines, Id57W4, r.value) ELSE machines
        /\ request' = [op |-> "Machine.estimated_finish_time", value |-> value]
        /\ response' = IF r.ok THEN None ELSE Some(r)
        /\ UNCHANGED <<now, calls, heap, frames>>

MachineSetTelegramMessage(message) ==
    /\ machines' = InPlace(machines, Id57W4, set_telegram_message(TheMachine, message))
    /\ request' = [op |-> "Machine.telegram_message", message |-> message]
    /\ response' = None
    /\ UNCHANGED <<now, calls, heap, frames>>

MachineSetRemainingTime(value) ==
    /\ machines' = InPlace(machines, Id57W4, set_remaining_time_seconds(TheMachine, value))
    /\ request' = [op |-> "Machine.remaining_time_seconds", value |-> value]
    /\ response' = None
    /\ UNCHANGED <<now, calls, heap, frames>>

\* storage.update(machine) with the machine fetched from the registry.
StorageUpdate ==
    /\ machines' = update(machines, TheMachine)
    /\ request' = [op |-> "MachineStorage.update"]
    /\ response' = None
    /\ UNCHANGED <<now, calls, heap, frames>>

NextMachine ==
    \/ \E s \in MachineStatus, u \in {"alice", "bob"} : MachineUpdateStatus(s, u)
    \/ \E v \in {None, Some(isoformat(Instant(1))), Some(NotIso)} :
          MachineSetEstimatedFinishTime(v)
    \/ \E a \in {None, Some(TelegramMessage("washer 4 is free", None)),
                Some(TelegramMessage("collect your laundry", Some("https://t.me/c/1/2")))} :
          MachineSetTelegramMessage(a)
    \/ \E v \in {300} : MachineSetRemainingTime(v)
    \/ StorageUpdate

SpecMachine == InitMachine /\ [][NextMachine]_vars

----
\* Spec: the registry behind its callers.  Each handler of
\* resources/machine.py is one action; MachineStorage.delete and
\* MachineStorage.get_by_status are also called directly, as any caller of
\* the storage module may.
Response(code, body) == [code |-> code, body |-> body]
Error(code) == [code |-> code, body |-> "error"]

\* int(x) for a JSON value: a number converts, a string that is not a
\* numeral raises ValueError, null raises TypeError.
JsonInt(v) == [type |-> "int", value |-> v]
JsonStr(v) == [type |-> "str", text |-> v]
JsonNull == [type |-> "null"]

int(x) ==
    CASE x.type = "int" -> Ok(x.value)
      [] x.type = "str" -> Raise("ValueError")
      [] x.type = "null" -> Raise("TypeError")

\* MachineListResource.post
ListPost(data) ==
    /\ request' = [op |-> "MachineListResource.post", data |-> data]
    /\ UNCHANGED <<now, calls, heap, frames>>
    /\ IF DOMAIN data = {} \/ "id" \notin DOMAIN data
       THEN response' = Some(Error(400)) /\ UNCHANGED machines
       ELSE IF exists(machines, data.id)
       THEN response' = Some(Error(409)) /\ UNCHANGED machines
       ELSE LET r == from_dict(data)
            IN  IF r.ok
                THEN /\ machines' = create(machines, r.value)
                     /\ response' = Some(Response(201, to_dict(r.value)))
                ELSE response' = Some(Error(400)) /\ UNCHANGED machines

\* MachineResource.get
MachineGet(machine_id) ==
    LET found == get_by_id(machines, machine_id)
    IN  /\ request' = [op |-> "MachineResource.get", machine_id |-> machine_id]
        /\ response' = IF IsNone(found) THEN Some(Error(404))
                       ELSE Some(Response(200, to_dict(Get(found))))
        /\ UNCHANGED <<machines, now, calls, heap, frames>>

\* MachineResource.delete
MachineDelete(machine_id) ==
    /\ request' = [op |-> "MachineResource.delete", machine_id |-> machine_id]
    /\ UNCHANGED <<now, calls, heap, frames>>
    /\ IF ~exists(machines, machine_id)
       THEN response' = Some(Error(404)) /\ UNCHANGED machines
       ELSE /\ machines' = delete(machines, machine_id).machines
            /\ response' = Some(Response(204, "success"))

\* MachineStatusResource.put.  MachineStatus(data['status']) is evaluated
\* before the machine is touched, so a ValueError leaves it as it was.
StatusPut(machine_id, data) ==
    LET found == get_by_id(machines, machine_id)
        m == Get(found)
    IN
    /\ request' = [op |-> "MachineStatusResource.put", machine_id |-> machine_id, data |-> data]
    /\ UNCHANGED <<calls, heap, frames>>
    /\ IF IsNone(found)
       THEN response' = Some(Error(404)) /\ UNCHANGED <<machines, now>>
       ELSE IF DOMAIN data = {} \/ "status" \notin DOMAIN data \/ "user" \notin DOMAIN data
       THEN response' = Some(Error(400)) /\ UNCHANGED <<machines, now>>
       ELSE IF ~MachineStatusOf(data.status).ok
       THEN response' = Some(Error(400)) /\ UNCHANGED <<machines, now>>
       ELSE \E t \in Readings(now) :
              LET m1 == update_status(m, MachineStatusOf(data.status).value,
                                      data.user, Instant(t))
                  m2 == IF "remaining_time_seconds" \in DOMAIN data
                        THEN set_remaining_time_seconds(m1, data.remaining_time_seconds)
                        ELSE m1
              IN  /\ Len(m.status_history) < MaxHist
                  /\ now' = t
                  /\ machines' = update(InPlace(machines, machine_id, m2), m2)
                  /\ response' = Some(Response(200, to_dict(m2)))

\* MachineTimeResource.patch
TimePatch(machine_id, data) ==
    LET found == get_by_id(machines, machine_id)
        m == Get(found)
    IN
    /\ request' = [op |-> "MachineTimeResource.patch", machine_id |-> machine_id, data |-> data]
    /\ UNCHANGED <<now, calls, heap, frames>>
    /\ IF IsNone(found)
       THEN response' = Some(Error(404)) /\ UNCHANGED machines
       ELSE IF DOMAIN data = {} \/ "remaining_time_seconds" \notin DOMAIN data
       THEN response' = Some(Error(400)) /\ UNCHANGED machines
       ELSE LET v == int(data.remaining_time_seconds)
            IN  IF ~v.ok
                THEN response' = Some(Error(400)) /\ UNCHANGED machines
                ELSE LET m1 == set_remaining_time_seconds(m, v.value)
                     IN  /\ machines' = update(InPlace(machines, machine_id, m1), m1)
                         /\ response' = Some(Response(200, to_dict(m1)))

\* MachineTelegramResource.put
TelegramPut(machine_id, data) ==
    LET found == get_by_id(machines, machine_id)
        m == Get(found)
    IN
    /\ request' = [op |-> "MachineTelegramResource.put", machine_id |-> machine_id, data |-> data]
    /\ UNCHANGED <<now, calls, heap, frames>>
    /\ IF IsNone(found)
       THEN response' = Some(Error(404)) /\ UNCHANGED machines
       ELSE IF DOMAIN data = {} \/ "message" \notin DOMAIN data
       THEN response' = Some(Error(400)) /\ UNCHANGED machines
       ELSE LET tm == TelegramMessage(data.message,
                                      IF "message_url" \in DOMAIN data
                                      THEN data.message_url ELSE None)
                m1 == set_telegram_message(m, Some(tm))
            IN  /\ machines' = update(InPlace(machines, machine_id, m1), m1)
                /\ response' = Some(Response(200, to_dict(m1)))

\* MachineTelegramResource.delete
TelegramDelete(machine_id) ==
    LET found == get_by_id(machines, machine_id)
        m == Get(found)
    IN
    /\ request' = [op |-> "MachineTelegramResource.delete", machine_id |-> machine_id]
    /\ UNCHANGED <<now, calls, heap, frames>>
    /\ IF IsNone(found)
       THEN response' = Some(Error(404)) /\ UNCHANGED machines
       ELSE LET m1 == set_telegram_message(m, None)
            IN  /\ machines' = update(InPlace(machines, machine_id, m1), m1)
                /\ response' = Some(Response(200, to_dict(m1)))

\* [machine.to_dict() for machine in machines]
to_dicts(ms) == [i \in 1..Len(ms) |-> to_dict(ms[i])]

\* MachineHistoryResource.get
HistoryGet(machine_id) ==
    LET found == get_by_id(machines, machine_id)
    IN  /\ request' = [op |-> "MachineHistoryResource.get", machine_id |-> machine_id]
        /\ response' = IF IsNone(found) THEN Some(Error(404))
                       ELSE Some(Response(200, to_dict(Get(found)).status_history))
        /\ UNCHANGED <<machines, now, calls, heap, frames>>

\* MachineInitializeResource.post: bulk initialization with the defaults.
InitializePost ==
    LET r == initialize_default_machines(machines,
                 DefaultWashers, DefaultWashers, DefaultWashers,
                 DefaultDryers, DefaultDryers, DefaultDryers)
    IN  /\ request' = [op |-> "MachineInitializeResource.post"]
        /\ machines' = r.machines
        /\ response' = Some(Response(201, to_dicts(r.ret)))
        /\ UNCHANGED <<now, calls, heap, frames>>

\* storage.delete(machine_id), called directly.
StorageDelete(machine_id) ==
    LET r == delete(machines, machine_id)
    IN  /\ request' = [op |-> "MachineStorage.delete", machine_id |-> machine_id]
        /\ machines' = r.machines
        /\ response' = Some(r.ret)
        /\ UNCHANGED <<now, calls, heap, frames>>

\* storage.get_by_status(status), called directly.
StorageGetByStatus(status) ==
    /\ request' = [op |-> "MachineStorage.get_by_status", status |-> status]
    /\ response' = Some(get_by_status(machines, status))
    /\ UNCHANGED <<machines, now, calls, heap, frames>>

\* MachineStorage.create, called directly with a constructed machine.
StorageCreate(m) ==
    /\ machines' = create(machines, m)
    /\ request' = [op |-> "MachineStorage.create", machine |-> m]
    /\ response' = Some(m)
    /\ UNCHANGED <<now, calls, heap, frames>>

\* The ids create and delete requests name: one bulk initialization
\* generates, and one it does not.
ReqIds == {Id55W1, Id55W12}

\* The id status, time and annotation requests name.
TargetIds == {Id55W1}

\* Bodies of create requests.
PostBody(id, block_number, status) ==
    [id |-> id, block_number |-> block_number, status |-> status,
     telegram_message |-> None]

PostData ==
    {PostBody(id, b, "available") : id \in ReqIds, b \in {55, 60}}
    \cup {PostBody(Id55W12, 55, "bogus")}
    \cup {[id |-> Id55W12, block_number |-> 55, status |-> "outOfOrder",
           status_history |-> <<[status |-> "inUse", timestamp |-> isoformat(Instant(1)),
                                 user |-> "bob"]>>,
           estimated_finish_time |-> Some(isoformat(Instant(2))),
           telegram_message |-> Some([message |-> "dryer broken"])]}
    \cup {[id |-> Id55W12, block_number |-> 55, status |-> "available"]}
    \cup {[id |-> Id55W12, block_number |-> 55, status |-> "available",
           estimated_finish_time |-> Some(NotIso), telegram_message |-> None]}
    \cup {[block_number |-> 55, status |-> "available", telegram_message |-> None]}

\* Bodies of status requests.
StatusData ==
    {[status |-> "inUse", user |-> "alice"],
     [status |-> "pendingUnload", user |-> "bob"],
     [status |-> "inUse", user |-> "alice", remaining_time_seconds |-> 3001],
     [status |-> "bogus", user |-> "alice"],
     [status |-> "inUse"],
     [user |-> "alice"]}

Init ==
    /\ machines = <<>>
    /\ now = 0
    /\ request = [op |-> "MachineStorage.__init__"]
    /\ response = None
    /\ calls = <<>>
    /\ heap = <<>>
    /\ frames = <<>>

Next ==
    \/ \E data \in PostData : ListPost(data)
    \/ \E k \in ReqIds : MachineDelete(k)
    \/ \E k \in TargetIds, data \in StatusData : StatusPut(k, data)
    \/ \E k \in TargetIds,
          data \in {[remaining_time_seconds |-> JsonInt(v)] : v \in {-1, 300, 3001}}
                   \cup {[remaining_time_seconds |-> JsonStr("soon")], <<>>} :
          TimePatch(k, data)
    \/ \E k \in TargetIds,
          data \in {[message |-> "washer 1 is free"], [url |-> "https://t.me/c/1/2"]} :
          TelegramPut(k, data)
    \/ \E k \in TargetIds : TelegramDelete(k)
    \/ \E k \in ReqIds : StorageDelete(k)
    \/ \E s \in MachineStatus : StorageGetByStatus(s)
    \/ \E m \in {MachineInit(Id55W1, 55, "PAID_FOR", None, None, None).value} :
          StorageCreate(m)
    \/ \E k \in ReqIds : MachineGet(k)
    \/ \E k \in TargetIds : HistoryGet(k)

Spec == Init /\ [][Next]_vars

----
\* SpecFleet: bulk initialization of the default fleet, on a registry that
\* create, status, time, annotation and delete requests have acted on.

NextFleet ==
    \/ InitializePost
    \/ \E data \in {PostBody(id, 55, "available") : id \in ReqIds} : ListPost(data)
    \/ \E k \in ReqIds : StatusPut(k, [status |-> "inUse", user |-> "alice"])
    \/ \E k \in TargetIds : TimePatch(k, [remaining_time_seconds |-> JsonInt(300)])
    \/ \E k \in TargetIds : TelegramPut(k, [message |-> "washer 1 is free"])
    \/ \E k \in ReqIds : StorageDelete(k)

SpecFleet == Init /\ [][NextFleet]_vars

----
\* SpecIds: the type and number properties of a machine, for every id string
\* over 5, 7, W, D, X and - of at most MaxIdLen characters.  The constructor accepts
\* any id.
MaxIdLen == 3

InitIds ==
    /\ \E id \in UNION {[1..n -> {"5", "7", "W", "D", "X", "-"}] : n \in 0..MaxIdLen} :
          /\ machines = create(<<>>, MachineInit(id, 57, "AVAILABLE", None, None, None).value)
          /\ request = [op |-> "Machine.__init__", id |-> id]
    /\ now = 0
    /\ calls = <<>>
    /\ heap = <<>>
    /\ frames = <<>>
    /\ response = None

ReadType ==
    /\ request' = [op |-> "Machine.type", id |-> machines[1].key]
    /\ response' = Machine_type(machines[1].value)
    /\ UNCHANGED <<machines, now, calls, heap, frames>>

ReadNumber ==
    /\ request' = [op |-> "Machine.number", id |-> machines[1].key]
    /\ response' = Machine_number(machines[1].value)
    /\ UNCHANGED <<machines, now, calls, heap, frames>>

NextIds ==
    \/ ReadType
    \/ ReadNumber

SpecIds == InitIds /\ [][NextIds]_vars

----

\* SpecType: the filters of the registry and of the list request, on
\* registries of machines created one by one under ids of any shape.

TypeArgs ==
    {MachineInit(Id57W4, 57, "AVAILABLE", None, None, None).value,
     MachineInit(Id59D6, 59, "IN_USE", None, None, None).value,
     MachineInit(<<"5", "7", "D", "W", "1">>, 57, "AVAILABLE", None, None, None).value,
     MachineInit(<<"5", "5", "X", "9">>, 55, "AVAILABLE", None, None, None).value}

StorageGetByType(machine_type) ==
    /\ request' = [op |-> "MachineStorage.get_by_type", machine_type |-> machine_type]
    /\ response' = Some(get_by_type(machines, machine_type))
    /\ UNCHANGED <<machines, now, calls, heap, frames>>

\* The list request that looks at the type argument before the status.
ListGet_TypeFirst(args) ==
    LET status == IF "status" \in DOMAIN args THEN args.status ELSE ""
        machine_type == IF "type" \in DOMAIN args THEN args.type ELSE ""
    IN  /\ request' = [op |-> "MachineListResource.get", args |-> args]
        /\ UNCHANGED <<machines, now, calls, heap, frames>>
        /\ response' =
              IF machine_type # ""
              THEN Some(Response(200, to_dicts(get_by_type(machines, machine_type))))
              ELSE IF status # "" /\ MachineStatusOf(status).ok
              THEN Some(Response(200, to_dicts(get_by_status(machines,
                                                 MachineStatusOf(status).value))))
              ELSE Some(Error(400))

\* MachineListResource.get: request.args.get gives None for an absent
\* argument, and `if status:` / `elif machine_type:` / `elif block:` take
\* None and the empty string alike for false.  The first argument that is
\* present and not empty decides, status before type before block; with
\* none the whole registry is listed.
ListGet(args) ==
    LET status == IF "status" \in DOMAIN args THEN args.status ELSE ""
        machine_type == IF "type" \in DOMAIN args THEN args.type ELSE ""
        block == IF "block" \in DOMAIN args THEN args.block ELSE <<>>
    IN  /\ request' = [op |-> "MachineListResource.get", args |-> args]
        /\ UNCHANGED <<machines, now, calls, heap, frames>>
        /\ response' =
              IF status # ""
              THEN IF MachineStatusOf(status).ok
                   THEN Some(Response(200, to_dicts(get_by_status(machines,
                                                      MachineStatusOf(status).value))))
                   ELSE Some(Error(400))
              ELSE IF machine_type # ""
              THEN Some(Response(200, to_dicts(get_by_type(machines, machine_type))))
              ELSE IF block # <<>>
              THEN IF ~int_str(block).ok THEN Some(Error(400))
                   ELSE IF int_str(block).value \notin {55, 57, 59} THEN Some(Error(400))
                   ELSE Some(Response(200, to_dicts(get_by_block(machines,
                                                      int_str(block).value))))
              ELSE Some(Response(200, to_dicts(get_all(machines))))

\* Query arguments of list requests: each filter alone, valid and invalid;
\* several at once; arguments given with an empty value.
ListArgs ==
    {[type |-> t] : t \in {"washer", "Washer", "dryer", "toaster"}}
    \cup {[status |-> "available", type |-> "dryer", block |-> <<"5", "9">>],
          [status |-> "available", type |-> "dryer", block |-> <<"6", "0">>],
          [status |-> "inUse"],
          [status |-> "bogus"],
          [status |-> "bogus", type |-> "washer"],
          [type |-> "washer", block |-> <<"5", "9">>],
          [type |-> "washer", block |-> <<"6", "0">>],
          [block |-> <<"5", "7">>], [block |-> <<"6", "0">>], [block |-> <<"X">>],
          [status |-> ""],
          [status |-> "", type |-> "dryer"],
          [status |-> "", type |-> "", block |-> <<"5", "7">>],
          [block |-> <<>>],
          <<>>}

NextType ==
    \/ \E m \in TypeArgs : StorageCreate(m)
    \/ \E k \in {m.id : m \in TypeArgs} : StorageDelete(k)
    \/ \E t \in {"washer", "Washer", "dryer", "toaster"} : StorageGetByType(t)
    \/ \E args \in ListArgs : ListGet(args)

SpecType == Init /\ [][NextType]_vars

----

\* SpecShared: the registry with its machines held by reference.  `heap`
\* holds the Machine objects, a reference is an index into it, and
\* `machines` maps each key to a reference.  A handler is three steps of
\* its thread: fetch (machine = storage.get_by_id(machine_id)), mutate (the
\* attribute writes through that reference) and write back
\* (storage.update(machine)); the steps of two threads interleave, and
\* create, delete, bulk initialization and get_all run between them.
\* `calls` lists the handlers and get_all calls begun.
MaxObjects == 3

Procs == {1}

\* Attribute assignment that lands on a private copy of the object.
Store_OnCopy(h, r, m) == h

\* Attribute assignment on the object behind reference r.
Store(h, r, m) == [h EXCEPT ![r] = m]

\* The registry as its readers see it: each reference followed.
Deref(d, h) == [i \in 1..Len(d) |-> [key |-> d[i].key, value |-> h[d[i].value]]]

\* A thread between two requests; `listing` is the value its last get_all
\* call returned, which it keeps.
Idle(listing) ==
    [pc |-> "idle", op |-> "none", machine_id |-> None, data |-> None,
     machine |-> None, listing |-> listing]

InitShared ==
    /\ machines = <<>>
    /\ heap = <<>>
    /\ frames = [p \in Procs |-> Idle(None)]
    /\ now = 0
    /\ request = [op |-> "MachineStorage.__init__"]
    /\ response = None
    /\ calls = <<>>

\* machine = storage.get_by_id(machine_id), and the 404 return when it is
\* None.
HandlerFetch(p, op, machine_id, data) ==
    LET found == get_by_id(machines, machine_id)
    IN  /\ frames[p].pc = "idle"
        /\ Len(calls) < MaxCalls
        /\ calls' = Append(calls, "handler")
        /\ request' = [op |-> op]
        /\ IF IsNone(found)
           THEN response' = Some(Error(404)) /\ UNCHANGED frames
           ELSE /\ frames' = [frames EXCEPT ![p] =
                                 [@ EXCEPT !.pc = "fetched", !.op = op,
                                           !.machine_id = Some(machine_id),
                                           !.data = Some(data), !.machine = found]]
                /\ response' = None
        /\ UNCHANGED <<machines, heap, now>>

\* What the handler's writes make of the machine it fetched.
Mutation(m, op, data, t) ==
    CASE op = "MachineStatusResource.put" ->
            update_status(m, MachineStatusOf(data.status).value, data.user, t)
      [] op = "MachineTimeResource.patch" ->
            set_remaining_time_seconds(m, int(data.remaining_time_seconds).value)
      [] op = "MachineTelegramResource.put" ->
            set_telegram_message(m, Some(TelegramMessage(data.message,
                                            IF "message_url" \in DOMAIN data
                                            THEN data.message_url ELSE None)))
      [] op = "MachineTelegramResource.delete" ->
            set_telegram_message(m, None)

\* The handler's writes, through the reference it fetched.
HandlerMutate(p) ==
    LET f == frames[p]
        r == Get(f.machine)
    IN  /\ f.pc = "fetched"
        /\ f.op = "MachineStatusResource.put" => Len(heap[r].status_history) < MaxHist
        /\ \E t \in Readings(now) :
              /\ now' = IF f.op = "MachineStatusResource.put" THEN t ELSE now
              /\ heap' = Store(heap, r, Mutation(heap[r], f.op, Get(f.data), Instant(t)))
        /\ frames' = [frames EXCEPT ![p].pc = "mutated"]
        /\ UNCHANGED <<machines, request, response, calls>>

\* storage.update that stores only a machine that is still the one
\* registered under its id.
update_ref_IfCurrent(d, h, r) ==
    IF DictGet(d, h[r].id) = Some(r) THEN DictSet(d, h[r].id, r) ELSE d

\* storage.update(machine) with the machine behind reference r.
update_ref(d, h, r) == DictSet(d, h[r].id, r)

\* storage.update(machine) and the 200 return.
HandlerWriteBack(p) ==
    LET f == frames[p]
        r == Get(f.machine)
    IN  /\ f.pc = "mutated"
        /\ machines' = update_ref(machines, heap, r)
        /\ response' = Some(Response(200, to_dict(heap[r])))
        /\ request' = [op |-> f.op]
        /\ frames' = [frames EXCEPT ![p] = Idle(f.listing)]
        /\ UNCHANGED <<heap, now, calls>>

\* storage.create(machine) with a machine just constructed.
SharedCreate(m) ==
    /\ Len(heap) < MaxObjects
    /\ heap' = Append(heap, m)
    /\ machines' = DictSet(machines, m.id, Len(heap) + 1)
    /\ request' = [op |-> "MachineStorage.create"]
    /\ response' = None
    /\ UNCHANGED <<now, calls, frames>>

\* storage.delete(machine_id)
SharedDelete(machine_id) ==
    /\ machines' = delete(machines, machine_id).machines
    /\ request' = [op |-> "MachineStorage.delete"]
    /\ response' = Some(delete(machines, machine_id).ret)
    /\ UNCHANGED <<now, calls, heap, frames>>

\* self._machines[machine.id] = machine for ms[i..], each a new object.
RECURSIVE StoreRefs(_, _, _, _)
StoreRefs(d, ms, base, i) ==
    IF i > Len(ms) THEN d
    ELSE StoreRefs(DictSet(d, ms[i].id, base + i), ms, base, i + 1)

\* storage.initialize_default_machines(washers_55=1) with every other
\* count 0.
SharedInitialize ==
    LET ms == initialize_default_machines(<<>>, 1, 0, 0, 0, 0, 0).ret
    IN  /\ Len(heap) + Len(ms) <= MaxObjects
        /\ heap' = heap \o ms
        /\ machines' = StoreRefs(machines, ms, Len(heap), 1)
        /\ request' = [op |-> "MachineStorage.initialize_default_machines"]
        /\ response' = None
        /\ UNCHANGED <<now, calls, frames>>

\* listing = storage.get_all()
SharedGetAll(p) ==
    /\ frames[p].pc = "idle"
    /\ Len(calls) < MaxCalls
    /\ calls' = Append(calls, "get_all")
    /\ frames' = [frames EXCEPT ![p].listing = Some(get_all(machines))]
    /\ request' = [op |-> "MachineStorage.get_all"]
    /\ response' = None
    /\ UNCHANGED <<machines, heap, now>>

NextShared ==
    \/ \E p \in Procs, k \in TargetIds,
          q \in {[op |-> "MachineStatusResource.put",
                  data |-> [status |-> "inUse", user |-> "alice"]],
                 [op |-> "MachineTimeResource.patch",
                  data |-> [remaining_time_seconds |-> JsonInt(300)]],
                 [op |-> "MachineTelegramResource.put",
                  data |-> [message |-> "washer 1 is free"]],
                 [op |-> "MachineTelegramResource.delete", data |-> <<>>]} :
          HandlerFetch(p, q.op, k, q.data)
    \/ \E p \in Procs : HandlerMutate(p)
    \/ \E p \in Procs : HandlerWriteBack(p)
    \/ \E m \in {MachineInit(Id55W12, 55, "PAID_FOR", None, None, None).value} :
          SharedCreate(m)
    \/ \E k \in ReqIds : SharedDelete(k)
    \/ SharedInitialize
    \/ \E p \in Procs : SharedGetAll(p)

SpecShared == InitShared /\ [][NextShared]_vars

----

\* SpecRace: two threads serve status and annotation requests for the same
\* machine, step by step, while bulk initializations run between the steps.
\* update_status is its two statements: the assignment of the status, then
\* the append of the history entry.  `calls` lists the handlers begun.
Threads == {1, 2}

InitRace ==
    /\ machines = <<>>
    /\ heap = <<>>
    /\ frames = [p \in Threads |-> Idle(None)]
    /\ now = 0
    /\ request = [op |-> "MachineStorage.__init__"]
    /\ response = None
    /\ calls = <<>>

\* First statement of machine.update_status(new_status, user):
\* self._status = new_status
StatusAssign(p) ==
    LET f == frames[p]
        r == Get(f.machine)
        new_status == MachineStatusOf(Get(f.data).status).value
    IN  /\ f.pc = "fetched"
        /\ f.op = "MachineStatusResource.put"
        /\ heap' = Store(heap, r, [heap[r] EXCEPT !.status = new_status])
        /\ frames' = [frames EXCEPT ![p].pc = "assigned"]
        /\ UNCHANGED <<machines, now, request, response, calls>>

\* Second statement of machine.update_status(new_status, user):
\* self._status_history.append(StatusHistoryEntry(new_status, datetime.now(), user))
StatusAppend(p) ==
    LET f == frames[p]
        r == Get(f.machine)
        new_status == MachineStatusOf(Get(f.data).status).value
    IN  /\ f.pc = "assigned"
        /\ \E t \in Readings(now) :
              /\ now' = t
              /\ heap' = Store(heap, r,
                     [heap[r] EXCEPT !.status_history =
                         Append(@, StatusHistoryEntry(new_status, Instant(t), Get(f.data).user))])
        /\ frames' = [frames EXCEPT ![p].pc = "mutated"]
        /\ UNCHANGED <<machines, request, response, calls>>

NextRace ==
    \/ \E p \in Threads, k \in TargetIds,
          q \in {[op |-> "MachineStatusResource.put",
                  data |-> [status |-> "inUse", user |-> "alice"]],
                 [op |-> "MachineStatusResource.put",
                  data |-> [status |-> "pendingUnload", user |-> "bob"]],
                 [op |-> "MachineTelegramResource.put",
                  data |-> [message |-> "washer 1 is free"]]} :
          HandlerFetch(p, q.op, k, q.data)
    \/ \E p \in Threads : StatusAssign(p)
    \/ \E p \in Threads : StatusAppend(p)
    \/ \E p \in Threads : frames[p].op # "MachineStatusResource.put" /\ HandlerMutate(p)
    \/ \E p \in Threads : HandlerWriteBack(p)
    \/ SharedInitialize

SpecRace == InitRace /\ [][NextRace]_vars

----

\* SpecHistory: the history lists as objects.  Here `heap` holds the list
\* objects, a machine's status_history is a reference into it, and two
\* machines share a history exactly when they hold the same reference.
\* `calls` lists the update_status calls made.

\* `status_history=[]` as the parameter's default: one list, made when the
\* function is defined, for every call that passes none.
new_history_SharedDefault(h, status_history) ==
    IF IsNone(status_history)
    THEN [ref |-> 1, heap |-> IF Len(h) = 0 THEN <<<<>>>> ELSE h]
    ELSE [ref |-> Get(status_history), heap |-> h]

\* `status_history or []`: a list passed and not empty is kept, the
\* caller's object; otherwise a new empty list is made.
new_history(h, status_history) ==
    IF IsNone(status_history) \/ h[Get(status_history)] = <<>>
    THEN [ref |-> Len(h) + 1, heap |-> Append(h, <<>>)]
    ELSE [ref |-> Get(status_history), heap |-> h]

\* Machine(id, block_number) and storage of the machine, for ms[i..].
RECURSIVE ConstructAll(_, _, _, _)
ConstructAll(d, h, ms, i) ==
    IF i > Len(ms) THEN [machines |-> d, heap |-> h]
    ELSE LET nh == new_history(h, None)
             m == [ms[i] EXCEPT !.status_history = nh.ref]
         IN  ConstructAll(DictSet(d, m.id, m), nh.heap, ms, i + 1)

\* The machine with its history list read.
WithHistory(m, h) == [m EXCEPT !.status_history = h[m.status_history]]

\* storage.create(Machine(id, 55)): no history is passed.
HistoryConstruct(id) ==
    LET r == ConstructAll(machines, heap, <<MachineInit(id, 55, "AVAILABLE", None, None, None).value>>, 1)
    IN  /\ Len(heap) < MaxObjects
        /\ machines' = r.machines
        /\ heap' = r.heap
        /\ request' = [op |-> "Machine.__init__", id |-> id]
        /\ response' = None
        /\ UNCHANGED <<now, calls, frames>>

\* storage.initialize_default_machines(washers_55=1, dryers_55=1) with
\* every other count 0.
HistoryInitialize ==
    LET ms == initialize_default_machines(<<>>, 1, 0, 0, 1, 0, 0).ret
        r == ConstructAll(machines, heap, ms, 1)
    IN  /\ Len(heap) + Len(ms) <= MaxObjects
        /\ machines' = r.machines
        /\ heap' = r.heap
        /\ request' = [op |-> "MachineStorage.initialize_default_machines"]
        /\ response' = None
        /\ UNCHANGED <<now, calls, frames>>

\* storage.get_by_id(machine_id).update_status(new_status, user)
HistoryUpdateStatus(machine_id, new_status, user) ==
    LET m == Get(get_by_id(machines, machine_id))
    IN  /\ machine_id \in DictKeys(machines)
        /\ Len(calls) < MaxCalls
        /\ calls' = Append(calls, machine_id)
        /\ \E t \in Readings(now) :
              LET m1 == update_status(WithHistory(m, heap), new_status, user, Instant(t))
              IN  /\ now' = t
                  /\ heap' = [heap EXCEPT ![m.status_history] = m1.status_history]
                  /\ machines' = InPlace(machines, machine_id,
                                         [m EXCEPT !.status = m1.status])
        /\ request' = [op |-> "Machine.update_status", machine_id |-> machine_id,
                       new_status |-> new_status, user |-> user]
        /\ response' = None
        /\ UNCHANGED frames

Id55D1 == <<"5", "5", "D", "1">>

HistoryIds == {Id55W1, Id55D1, Id55W12}

NextHistory ==
    \/ \E id \in {Id55W12} : HistoryConstruct(id)
    \/ HistoryInitialize
    \/ \E k \in HistoryIds, s \in {"IN_USE", "OUT_OF_ORDER"}, u \in {"alice"} :
          HistoryUpdateStatus(k, s, u)

SpecHistory == Init /\ [][NextHistory]_vars

----
\* SpecMonitor: telegram_monitor.py.  The monitor handles one chat message
\* at a time: process_message filters it, parse_message_with_openai turns
\* the language model's reply into a result, update_machine_status talks to
\* the API with three HTTP requests.  The message, the model's reply and a
\* failure of the transport are inputs; the API's answers are those of the
\* handlers above on the registry, which other clients change meanwhile.

\* TELEGRAM_TOPIC_ID of the environment.
TOPIC_ID == 7

\* TelegramMonitor.filter_relevant_message, on a text held as a sequence of
\* characters: a block number in the text, or a keyword in text.lower().
filter_relevant_message(message_text) ==
    LET UpperCase == <<"A", "B", "C", "D", "E", "F", "G", "H", "I", "J", "K", "L", "M",
                       "N", "O", "P", "Q", "R", "S", "T", "U", "V", "W", "X", "Y", "Z">>
        LowerCase == <<"a", "b", "c", "d", "e", "f", "g", "h", "i", "j", "k", "l", "m",
                       "n", "o", "p", "q", "r", "s", "t", "u", "v", "w", "x", "y", "z">>
        lower_char(c) ==
            IF \E i \in 1..26 : UpperCase[i] = c
            THEN LowerCase[CHOOSE i \in 1..26 : UpperCase[i] = c]
            ELSE c
        text_lower == [i \in 1..Len(message_text) |-> lower_char(message_text[i])]
        contains(text, sub) ==
            \E i \in 1..(Len(text) - Len(sub) + 1) : SubSeq(text, i, i + Len(sub) - 1) = sub
        keywords == {<<"w", "a", "s", "h", "e", "r">>, <<"d", "r", "y", "e", "r">>,
                     <<"w", "a", "s", "h">>, <<"d", "r", "y">>,
                     <<"m", "a", "c", "h", "i", "n", "e">>,
                     <<"l", "a", "u", "n", "d", "r", "y">>}
        has_block == \E block \in {<<"5", "5">>, <<"5", "7">>, <<"5", "9">>} :
                        contains(message_text, block)
        has_keyword == \E keyword \in keywords : contains(text_lower, keyword)
    IN  IF message_text = <<>> THEN FALSE ELSE has_block \/ has_keyword

\* true and false of a reply, besides JsonInt, JsonStr and JsonNull.
JsonBool(b) == [type |-> "bool", value |-> b]

\* bool(v) of the Python value a JSON value loads to.
truthy(v) ==
    CASE v.type = "bool" -> v.value
      [] v.type = "null" -> FALSE
      [] v.type = "int" -> v.value # 0
      [] v.type = "str" -> Len(v.text) > 0
      [] OTHER -> TRUE

\* d.get(k, default)
dict_get(d, k, default) == IF k \in DOMAIN d THEN d[k] ELSE default

\* The replies of the language model (response.choices[0].message.content)
\* with what json.loads makes of each: an object, an array, or
\* JSONDecodeError.  The first four are those that are JSON objects, are
\* not marked relevant=false, and carry a machine_id of the pattern, one of
\* the five status tags and no low confidence.
Replies ==
    LET Object(items) == Ok([type |-> "object", items |-> items])
        yes == JsonBool(TRUE)
        no == JsonBool(FALSE)
    IN  <<[text |-> "{\"machine_id\": \"55W1\", \"status\": \"inUse\", \"confidence\": \"high\"}",
           loads |-> Object([machine_id |-> JsonStr(Id55W1), status |-> JsonStr("inUse"),
                             confidence |-> JsonStr("high")])],
          [text |-> "{\"relevant\": true, \"machine_id\": \"55W1\", \"status\": \"inUse\", \"confidence\": \"high\"}",
           loads |-> Object([relevant |-> yes, machine_id |-> JsonStr(Id55W1),
                             status |-> JsonStr("inUse"), confidence |-> JsonStr("high")])],
          [text |-> "{\"relevant\": true, \"machine_id\": \"55W12\", \"status\": \"available\"}",
           loads |-> Object([relevant |-> yes, machine_id |-> JsonStr(Id55W12),
                             status |-> JsonStr("available")])],
          [text |-> "{\"relevant\": true, \"machine_id\": \"55W1\\n\", \"status\": \"outOfOrder\"}",
           loads |-> Object([relevant |-> yes,
                             machine_id |-> JsonStr(<<"5", "5", "W", "1", "\n">>),
                             status |-> JsonStr("outOfOrder")])],
          [text |-> "{\"relevant\": false}",
           loads |-> Object([relevant |-> no])],
          [text |-> "{\"relevant\": false, \"machine_id\": \"55W1\", \"status\": \"inUse\"}",
           loads |-> Object([relevant |-> no, machine_id |-> JsonStr(Id55W1),
                             status |-> JsonStr("inUse")])],
          [text |-> "{\"relevant\": true, \"machine_id\": \"55W1\"}",
           loads |-> Object([relevant |-> yes, machine_id |-> JsonStr(Id55W1)])],
          [text |-> "{\"relevant\": true, \"machine_id\": \"60W1\", \"status\": \"inUse\"}",
           loads |-> Object([relevant |-> yes, machine_id |-> JsonStr(<<"6", "0", "W", "1">>),
                             status |-> JsonStr("inUse")])],
          [text |-> "{\"relevant\": true, \"machine_id\": \"55W1x\", \"status\": \"inUse\"}",
           loads |-> Object([relevant |-> yes,
                             machine_id |-> JsonStr(<<"5", "5", "W", "1", "x">>),
                             status |-> JsonStr("inUse")])],
          [text |-> "{\"relevant\": true, \"machine_id\": \"55W\", \"status\": \"inUse\"}",
           loads |-> Object([relevant |-> yes, machine_id |-> JsonStr(<<"5", "5", "W">>),
                             status |-> JsonStr("inUse")])],
          [text |-> "{\"relevant\": true, \"machine_id\": \"55W1\", \"status\": \"broken\"}",
           loads |-> Object([relevant |-> yes, machine_id |-> JsonStr(Id55W1),
                             status |-> JsonStr("broken")])],
          [text |-> "{\"relevant\": true, \"machine_id\": \"55W1\", \"status\": \"inUse\", \"confidence\": \"low\"}",
           loads |-> Object([relevant |-> yes, machine_id |-> JsonStr(Id55W1),
                             status |-> JsonStr("inUse"), confidence |-> JsonStr("low")])],
          [text |-> "{\"relevant\": true, \"machine_id\": null, \"status\": \"inUse\"}",
           loads |-> Object([relevant |-> yes, machine_id |-> JsonNull,
                             status |-> JsonStr("inUse")])],
          [text |-> "{}", loads |-> Object(<<>>)],
          [text |-> "[]", loads |-> Ok([type |-> "array"])],
          [text |-> "Sure! 55W1 is now in use.", loads |-> Raise("JSONDecodeError")]>>

\* json.loads(response_text)
json_loads(text) == Replies[CHOOSE i \in DOMAIN Replies : Replies[i].text = text].loads

\* The match of the pattern without its closing $.
re_match_Unanchored(machine_id) ==
    /\ Len(machine_id) >= 4
    /\ SubSeq(machine_id, 1, 2) \in {<<"5", "5">>, <<"5", "7">>, <<"5", "9">>}
    /\ machine_id[3] \in {"W", "D"}
    /\ machine_id[4] \in Digits

\* re.match(r'^(55|57|59)[WD]\d+$', machine_id) is not None.  Without
\* re.MULTILINE, $ matches at the end of the string and also just before a
\* newline that ends it.
re_match(machine_id) ==
    LET n == Len(machine_id)
        end == IF n > 0 /\ machine_id[n] = "\n" THEN n - 1 ELSE n
    IN  /\ end >= 4
        /\ SubSeq(machine_id, 1, 2) \in {<<"5", "5">>, <<"5", "7">>, <<"5", "9">>}
        /\ machine_id[3] \in {"W", "D"}
        /\ \A i \in 4..end : machine_id[i] \in Digits

\* TelegramMonitor.parse_message_with_openai, from the completion on: the
\* call raised, or returned a content that is None or a text.  .get on a
\* value that is not a dict and re.match on a value that is not a str raise,
\* and the last handler turns every exception into an error record.
parse_message_with_openai(completion) ==
    LET error(error_message) == [error |-> JsonStr(error_message)]
        valid_statuses == {"available", "paidFor", "inUse", "pendingUnload", "outOfOrder"}
    IN
    IF ~completion.ok THEN error("Error parsing message with OpenAI")
    ELSE IF IsNone(completion.value) THEN error("OpenAI response content is None")
    ELSE LET loaded == json_loads(Get(completion.value))
         IN  IF ~loaded.ok THEN error("Failed to parse OpenAI response as JSON")
             ELSE IF loaded.value.type # "object"
             THEN error("Error parsing message with OpenAI")
             ELSE LET result == loaded.value.items
                  IN  IF ~truthy(dict_get(result, "relevant", JsonBool(TRUE)))
                      THEN error("OpenAI marked message as not relevant")
                      ELSE IF "machine_id" \notin DOMAIN result \/ "status" \notin DOMAIN result
                      THEN error("OpenAI response missing required fields")
                      ELSE IF result.machine_id.type # "str"
                      THEN error("Error parsing message with OpenAI")
                      ELSE IF ~re_match(result.machine_id.text)
                      THEN error("Invalid machine_id format")
                      ELSE IF ~(result.status.type = "str" /\ result.status.text \in valid_statuses)
                      THEN error("Invalid status")
                      ELSE LET confidence == dict_get(result, "confidence", JsonStr("medium"))
                           IN  IF confidence.type = "str" /\ confidence.text = "low"
                               THEN error("Low confidence parse, skipping")
                               ELSE result

\* The test process_message makes on the result before it goes on:
\* not (not parsed or 'error' in parsed or not parsed.get('relevant')).
actionable(parsed) ==
    ~(\/ DOMAIN parsed = {}
      \/ "error" \in DOMAIN parsed
      \/ ~truthy(dict_get(parsed, "relevant", JsonNull)))

\* {'status': status_str, 'user': ...} of update_machine_status.
status_payload(status_str, user) ==
    [status |-> status_str,
     user |-> IF user = "" THEN "<unknown>"
              ELSE IF user # "admin" THEN "@" \o user ELSE user]

\* The annotation payload with the whole message.
telegram_payload_Untruncated(message_text) ==
    [message |-> message_text, message_url |-> None]

\* {'message': message_text[:200], 'message_url': None}
telegram_payload(message_text) ==
    [message |-> SubSeq(message_text, 1,
                        IF Len(message_text) < 200 THEN Len(message_text) ELSE 200),
     message_url |-> None]

\* A request of the monitor, as requests.get / requests.put send it.
HttpRequest(method, resource, machine_id, json) == [method |-> method, resource |-> resource, machine_id |-> machine_id, json |-> json]

\* The monitor's local variables between two messages.
MonitorFrame(pc, message, completion, parsed, success) == [pc |-> pc, message |-> message, completion |-> completion, parsed |-> parsed, success |-> success]

InitMonitor ==
    /\ machines = initialize_default_machines(<<>>, 1, 0, 0, 0, 0, 0).machines
    /\ now = 0
    /\ request = [op |-> "TelegramMonitor.__init__"]
    /\ response = None
    /\ calls = <<>>
    /\ heap = <<>>
    /\ frames = MonitorFrame("idle", None, None, None, None)

\* process_message up to the call of the language model: the message must
\* be in the monitored forum topic, have a text, and pass the filter.
ProcessMessage(message) ==
    LET in_topic == /\ ~IsNone(message.reply_to)
                    /\ Get(message.reply_to).forum_topic
                    /\ Get(message.reply_to).reply_to_msg_id = TOPIC_ID
        goes_on == /\ in_topic
                   /\ message.message # <<>>
                   /\ filter_relevant_message(message.message)
    IN  /\ frames.pc = "idle"
        /\ frames' = MonitorFrame(IF goes_on THEN "parse" ELSE "idle",
                                  Some(message), None, None, None)
        /\ request' = [op |-> "TelegramMonitor.process_message"]
        /\ response' = None
        /\ calls' = <<>>
        /\ UNCHANGED <<machines, now, heap>>

\* process_message from the model's completion on: the result is parsed
\* and tested; when the test passes, update_machine_status is called with
\* the result's machine_id and status and sends its first request.
ParseMessage(completion) ==
    LET parsed == parse_message_with_openai(completion)
    IN  /\ frames.pc = "parse"
        /\ UNCHANGED <<machines, now, heap, response, request>>
        /\ IF ~actionable(parsed)
           THEN /\ frames' = MonitorFrame("idle", frames.message, Some(completion),
                                          Some(parsed), None)
                /\ UNCHANGED calls
           ELSE /\ frames' = MonitorFrame("get", frames.message, Some(completion),
                                          Some(parsed), None)
                /\ calls' = Append(calls, HttpRequest("GET", "machine",
                                                      parsed.machine_id.text, None))

\* The request in flight is answered with an error status by the server or
\* by something in front of it.
ServeError(code) ==
    /\ frames.pc \in {"get", "put", "telegram"}
    /\ IsNone(response)
    /\ response' = Some(Error(code))
    /\ UNCHANGED <<machines, now, request, calls, heap, frames>>

\* requests raises (Timeout, ConnectionError, any other exception):
\* update_machine_status returns False.
RequestRaises ==
    /\ frames.pc \in {"get", "put", "telegram"}
    /\ IsNone(response)
    /\ frames' = [frames EXCEPT !.pc = "idle", !.success = Some(FALSE)]
    /\ UNCHANGED <<machines, now, request, response, calls, heap>>

\* update_machine_status after its GET: 404 and every other status but
\* 200 end it with False; on 200 it sends the status PUT.  response holds
\* the last answer received until the next request is sent.
UpdateAfterGet ==
    LET parsed == Get(frames.parsed)
    IN  /\ frames.pc = "get"
        /\ ~IsNone(response)
        /\ UNCHANGED <<machines, now, request, heap>>
        /\ IF Get(response).code = 404 \/ Get(response).code # 200
           THEN /\ frames' = [frames EXCEPT !.pc = "idle", !.success = Some(FALSE)]
                /\ UNCHANGED <<calls, response>>
           ELSE /\ frames' = [frames EXCEPT !.pc = "put"]
                /\ response' = None
                /\ calls' = Append(calls,
                       HttpRequest("PUT", "status", parsed.machine_id.text,
                                   Some(status_payload(parsed.status.text, ""))))

\* update_machine_status after its status PUT: every status but 200 ends
\* it with False; on 200 it sends the annotation PUT.
UpdateAfterStatusPut ==
    LET parsed == Get(frames.parsed)
    IN  /\ frames.pc = "put"
        /\ ~IsNone(response)
        /\ UNCHANGED <<machines, now, request, heap>>
        /\ IF Get(response).code # 200
           THEN /\ frames' = [frames EXCEPT !.pc = "idle", !.success = Some(FALSE)]
                /\ UNCHANGED <<calls, response>>
           ELSE /\ frames' = [frames EXCEPT !.pc = "telegram"]
                /\ response' = None
                /\ calls' = Append(calls,
                       HttpRequest("PUT", "telegram", parsed.machine_id.text,
                                   Some(telegram_payload(Get(frames.message).message))))

\* update_machine_status after its annotation PUT: whatever the status, it
\* returns True.
UpdateAfterTelegramPut ==
    /\ frames.pc = "telegram"
    /\ ~IsNone(response)
    /\ frames' = [frames EXCEPT !.pc = "idle", !.success = Some(TRUE)]
    /\ UNCHANGED <<machines, now, request, response, calls, heap>>

\* Another client's request, served between two requests of the monitor:
\* MachineResource.delete and MachineInitializeResource.post.  Its response
\* goes to that client.
ClientDelete(machine_id) ==
    /\ exists(machines, machine_id)
    /\ machines' = delete(machines, machine_id).machines
    /\ UNCHANGED <<now, request, response, calls, heap, frames>>

ClientInitialize ==
    /\ machines' = initialize_default_machines(machines, 1, 0, 0, 0, 0, 0).machines
    /\ UNCHANGED <<now, request, response, calls, heap, frames>>

\* The chat messages: in the monitored topic with a block number, with a
\* keyword, with 201 characters, without either, without text; outside a
\* topic, in another topic, and a reply that is not a topic message.
Messages ==
    LET Message(id, reply_to, message) ==
            [id |-> id, reply_to |-> reply_to, message |-> message]
        Header(forum_topic, reply_to_msg_id) ==
            [forum_topic |-> forum_topic, reply_to_msg_id |-> reply_to_msg_id]
        free == <<"5", "5", "W", "1", " ", "f", "r", "e", "e">>
        long == [i \in 1..201 |-> IF i = 1 THEN "5" ELSE IF i = 2 THEN "9" ELSE "!"]
    IN  {Message(1, Some(Header(TRUE, TOPIC_ID)), free),
         Message(2, Some(Header(TRUE, TOPIC_ID)), <<"D", "r", "y", "e", "r", "?">>),
         Message(3, Some(Header(TRUE, TOPIC_ID)), long),
         Message(4, Some(Header(TRUE, TOPIC_ID)), <<"h", "i">>),
         Message(5, Some(Header(TRUE, TOPIC_ID)), <<>>),
         Message(6, None, free),
         Message(7, Some(Header(TRUE, TOPIC_ID + 1)), free),
         Message(8, Some(Header(FALSE, TOPIC_ID)), free)}

\* What openai_client.chat.completions.create gives: a content, no
\* content, or an exception.
Completions ==
    {Ok(Some(Replies[i].text)) : i \in DOMAIN Replies} \cup {Ok(None), Raise("APIError")}

\* The API serves the request in flight (second to fourth disjunct) with
\* the handler of its resource.
NextMonitor ==
    \/ \E message \in Messages : ProcessMessage(message)
    \/ \E completion \in Completions : ParseMessage(completion)
    \/ (frames.pc = "get" /\ IsNone(response)
          /\ MachineGet(Get(frames.parsed).machine_id.text))
    \/ (frames.pc = "put" /\ IsNone(response)
          /\ StatusPut(Get(frames.parsed).machine_id.text,
                       status_payload(Get(frames.parsed).status.text, "")))
    \/ (frames.pc = "telegram" /\ IsNone(response)
          /\ TelegramPut(Get(frames.parsed).machine_id.text,
                         telegram_payload(Get(frames.message).message)))
    \/ \E code \in {500} : ServeError(code)
    \/ RequestRaises
    \/ UpdateAfterGet
    \/ UpdateAfterStatusPut
    \/ UpdateAfterTelegramPut
    \/ \E k \in TargetIds : ClientDelete(k)
    \/ ClientInitialize

SpecMonitor == InitMonitor /\ [][NextMonitor]_vars

\* SpecPoll: the monitor's polls.  heap holds the TelegramMonitor object
\* and the frame of check_new_messages: last_message_id, the list messages
\* and the position i of its loop, pc ("wait" between two polls, "loop"
\* inside one), and two history fields: start, the value of
\* last_message_id when the poll began, and earlier, the ids passed to
\* process_message by the polls before it.  frames is the frame of the
\* process_message call in progress; its message is None when there is none.

\* The largest id of a chat message.
MaxMessageId == 3

\* TelegramMonitor.__init__: last_message_id = -1.
InitPoll ==
    /\ machines = initialize_default_machines(<<>>, 1, 0, 0, 0, 0, 0).machines
    /\ now = 0
    /\ request = [op |-> "TelegramMonitor.__init__"]
    /\ response = None
    /\ calls = <<>>
    /\ heap = [last_message_id |-> -1, pc |-> "wait", messages |-> <<>>, i |-> 1,
               start |-> -1, earlier |-> {}]
    /\ frames = MonitorFrame("idle", None, None, None, None)

\* check_new_messages up to its loop: without a client, or when
\* get_dialogs, get_entity or iter_messages raises, it returns at once;
\* otherwise messages is what iter_messages gave and the loop begins.
CheckNewMessages(fetch) ==
    /\ heap.pc = "wait"
    /\ request' = [op |-> "TelegramMonitor.check_new_messages"]
    /\ heap' = [heap EXCEPT
                   !.messages = IF fetch.ok THEN fetch.value ELSE <<>>,
                   !.i = 1,
                   !.pc = IF fetch.ok /\ fetch.value # <<>> THEN "loop" ELSE "wait",
                   !.start = heap.last_message_id,
                   !.earlier = @ \cup {heap.messages[j].id : j \in DOMAIN heap.messages}]
    /\ UNCHANGED <<machines, now, response, calls, frames>>

\* The loop's assignment without the max.
AfterProcessMessage_Assign ==
    LET message == heap.messages[heap.i]
    IN  /\ heap.pc = "loop"
        /\ frames.pc = "idle"
        /\ ~IsNone(frames.message)
        /\ heap' = [heap EXCEPT
                       !.last_message_id = message.id,
                       !.i = @ + 1,
                       !.pc = IF heap.i = Len(heap.messages) THEN "wait" ELSE "loop"]
        /\ frames' = MonitorFrame("idle", None, None, None, None)
        /\ UNCHANGED <<machines, now, request, response, calls>>

\* The loop of check_new_messages once process_message has returned:
\* last_message_id = max(last_message_id, message.id), then the next
\* message, or the end of the poll after the last one.
AfterProcessMessage ==
    LET message == heap.messages[heap.i]
    IN  /\ heap.pc = "loop"
        /\ frames.pc = "idle"
        /\ ~IsNone(frames.message)
        /\ heap' = [heap EXCEPT
                       !.last_message_id = IF message.id > @ THEN message.id ELSE @,
                       !.i = @ + 1,
                       !.pc = IF heap.i = Len(heap.messages) THEN "wait" ELSE "loop"]
        /\ frames' = MonitorFrame("idle", None, None, None, None)
        /\ UNCHANGED <<machines, now, request, response, calls>>

\* A poll fetches at most two of the messages whose id is above
\* last_message_id (min_id), in either order, or fails; the loop passes
\* messages[i] to process_message (third disjunct), which runs as in
\* SpecMonitor.
NextPoll ==
    \/ \E fetch \in {Raise("ValueError"), Ok(<<>>)}
                    \cup {Ok(<<m>>) : m \in {x \in Messages :
                             x.id <= MaxMessageId /\ x.id > heap.last_message_id}}
                    \cup {Ok(<<m, n>>) : <<m, n>> \in {p \in Messages \X Messages :
                             /\ p[1].id # p[2].id
                             /\ p[1].id <= MaxMessageId /\ p[1].id > heap.last_message_id
                             /\ p[2].id <= MaxMessageId /\ p[2].id > heap.last_message_id}} :
          CheckNewMessages(fetch)
    \/ AfterProcessMessage
    \/ (heap.pc = "loop" /\ IsNone(frames.message)
          /\ ProcessMessage(heap.messages[heap.i]))
    \/ \E completion \in {Ok(Some(Replies[1].text)), Ok(Some(Replies[2].text)), Ok(None)} :
          ParseMessage(completion)
    \/ (frames.pc = "get" /\ IsNone(response)
          /\ MachineGet(Get(frames.parsed).machine_id.text))
    \/ (frames.pc = "put" /\ IsNone(response)
          /\ StatusPut(Get(frames.parsed).machine_id.text,
                       status_payload(Get(frames.parsed).status.text, "")))
    \/ (frames.pc = "telegram" /\ IsNone(response)
          /\ TelegramPut(Get(frames.parsed).machine_id.text,
                         telegram_payload(Get(frames.message).message)))
    \/ RequestRaises
    \/ UpdateAfterGet
    \/ UpdateAfterStatusPut
    \/ UpdateAfterTelegramPut

SpecPoll == InitPoll /\ [][NextPoll]_vars

----

\* Properties.

\* C1 (SpecMachine): a machine constructed with an empty history has, after
\* N update_status calls, exactly N history entries, and for N >= 1 its
\* status and its last entry's status are the last call's argument.
HistoryCountsCalls ==
    LET h == TheMachine.status_history
    IN  /\ Len(h) = Len(calls)
        /\ Len(calls) >= 1 =>
              /\ TheMachine.status = Last(calls).new_status
              /\ Last(h).status = Last(calls).new_status

HistoryCountsCallsWitness ==
    /\ Len(calls) = 2
    /\ calls[1].new_status = "IN_USE"
    /\ calls[2].new_status = "IN_USE"
    /\ calls[2].user = "bob"

\* C2 (SpecMachine): every operation on a machine (update_status, the
\* finish-time, remaining-time and annotation assignments, storage.update)
\* leaves the history it had as a prefix of the history it has.
HistoryAppendOnly ==
    [][IsPrefix(TheMachine.status_history, TheMachine'.status_history)]_vars

HistoryAppendOnlyWitness ==
    /\ request.op = "MachineStorage.update"
    /\ Len(TheMachine.status_history) = 2
    /\ ~IsNone(TheMachine.telegram_message)
    /\ ~IsNone(TheMachine.estimated_finish_time)
    /\ ~IsNone(TheMachine.remaining_time_seconds)

\* C3 (Spec): storage.delete of an absent id returns False and leaves the
\* registry as it was; of a present id it returns True, removes that entry
\* and no other, changes no other entry, and exists(id) is False after it.
DeleteContract ==
    [][request'.op = "MachineStorage.delete" =>
        LET k == request'.machine_id
        IN  IF k \notin DictKeys(machines)
            THEN response' = Some(FALSE) /\ machines' = machines
            ELSE /\ response' = Some(TRUE)
                 /\ Len(machines') = Len(machines) - 1
                 /\ DictKeys(machines') = DictKeys(machines) \ {k}
                 /\ \A j \in DictKeys(machines') :
                       DictGet(machines', j) = DictGet(machines, j)
                 /\ ~exists(machines', k)]_vars

DeleteContractWitness ==
    /\ request.op = "MachineStorage.delete"
    /\ response = Some(TRUE)
    /\ Len(machines) = 1
    /\ ~IsNone(machines[1].value.remaining_time_seconds)

\* The ids bulk initialization generates with the default counts, written
\* out: <b>W1..<b>W11 and <b>D1..<b>D6 for b in 55, 57, 59.
GeneratedIds ==
    {b \o <<"W">> \o n :
        b \in {<<"5", "5">>, <<"5", "7">>, <<"5", "9">>},
        n \in {<<"1">>, <<"2">>, <<"3">>, <<"4">>, <<"5">>, <<"6">>, <<"7">>,
               <<"8">>, <<"9">>, <<"1", "0">>, <<"1", "1">>}}
    \cup
    {b \o <<"D">> \o n :
        b \in {<<"5", "5">>, <<"5", "7">>, <<"5", "9">>},
        n \in {<<"1">>, <<"2">>, <<"3">>, <<"4">>, <<"5">>, <<"6">>}}

\* A machine as bulk initialization leaves it.
Pristine(m) ==
    /\ m.status = "AVAILABLE"
    /\ m.status_history = <<>>
    /\ IsNone(m.estimated_finish_time)
    /\ IsNone(m.remaining_time_seconds)
    /\ IsNone(m.telegram_message)

\* C4 (SpecFleet): bulk initialization of an empty registry registers
\* exactly the 51 generated ids, each AVAILABLE with empty history, no
\* estimate and no annotation, and returns exactly those machines.
FleetOnEmptyRegistry ==
    [][(request'.op = "MachineInitializeResource.post" /\ machines = <<>>) =>
        LET body == Get(response').body
        IN  /\ Len(machines') = 51
            /\ DictKeys(machines') = GeneratedIds
            /\ \A i \in 1..Len(machines') :
                  /\ machines'[i].value.id = machines'[i].key
                  /\ Pristine(machines'[i].value)
            /\ Len(body) = 51
            /\ {body[i].id : i \in 1..Len(body)} = GeneratedIds
            /\ \A i \in 1..Len(body) :
                  body[i] = to_dict(Get(DictGet(machines', body[i].id)))]_vars

FleetOnEmptyRegistryWitness ==
    /\ request.op = "MachineInitializeResource.post"
    /\ Len(machines) = 51
    /\ machines[1].key = Id55W1
    /\ machines[51].key = Id59D6

\* C5 (SpecFleet): bulk initialization resets every generated id whatever
\* its state was, and leaves every other registered machine unchanged.
FleetResetsGeneratedOnly ==
    [][request'.op = "MachineInitializeResource.post" =>
        /\ \A g \in GeneratedIds :
              /\ g \in DictKeys(machines')
              /\ Pristine(Get(DictGet(machines', g)))
        /\ \A k \in DictKeys(machines) \ GeneratedIds :
              /\ k \in DictKeys(machines')
              /\ DictGet(machines', k) = DictGet(machines, k)]_vars

\* Both requested ids were registered before the initialization: the one it
\* generates kept its first place, the other, still in use, its second.
FleetResetsGeneratedOnlyWitness ==
    /\ request.op = "MachineInitializeResource.post"
    /\ Len(machines) = 52
    /\ machines[1].key = Id55W1
    /\ machines[2].key = Id55W12
    /\ machines[2].value.status = "IN_USE"
    /\ Len(machines[2].value.status_history) = 1

\* The positions of the registry whose machine has status s.
PositionsWithStatus(d, s) == {i \in 1..Len(d) : d[i].value.status = s}

\* C6 (Spec): get_by_status(s) returns the registered machines whose status
\* is s, each once, in registry order (none on an empty registry), and does
\* not change the registry.
GetByStatusContract ==
    [][request'.op = "MachineStorage.get_by_status" =>
        LET result == Get(response')
            pos == PositionsWithStatus(machines, request'.status)
        IN  /\ machines' = machines
            /\ Len(result) = Cardinality(pos)
            /\ \A p \in pos :
                  result[Cardinality({q \in pos : q <= p})] = machines[p].value]_vars

GetByStatusContractWitness ==
    /\ request.op = "MachineStorage.get_by_status"
    /\ request.status = "IN_USE"
    /\ Len(machines) = 2
    /\ Len(Get(response)) = 1
    /\ Get(response)[1].id = machines[2].key

\* C7 (Spec): a remaining time, when present, lies in 0..MAX_RUN_TIME_SECONDS.
RemainingTimeInRange ==
    \A i \in 1..Len(machines) :
        LET r == machines[i].value.remaining_time_seconds
        IN  ~IsNone(r) => (0 <= Get(r) /\ Get(r) <= MAX_RUN_TIME_SECONDS)

\* C8 (SpecCtor): Machine(...) succeeds for a block_number in {55, 57, 59}
\* with any status, and raises, producing no machine, for any other.
CtorValidatesBlock ==
    (request.op = "Machine.__init__" /\ ~IsNone(response)) =>
        LET r == Get(response)
        IN  IF request.block_number \in {55, 57, 59}
            THEN /\ r.ok
                 /\ r.value.id = request.id
                 /\ r.value.block_number = request.block_number
                 /\ r.value.status = request.status
            ELSE /\ ~r.ok
                 /\ r.error = "ValueError"
                 /\ "value" \notin DOMAIN r

CtorValidatesBlockWitness ==
    /\ request.op = "Machine.__init__"
    /\ ~IsNone(response)
    /\ Get(response).ok
    /\ request.block_number = 59
    /\ request.status = "OUT_OF_ORDER"

\* The block an id encodes: the number written before its first W or D.
BlockPrefix(id) ==
    LET i == CHOOSE j \in 1..Len(id) :
                 id[j] \in {"W", "D"} /\ \A l \in 1..(j - 1) : id[l] \notin {"W", "D"}
    IN  IntOf(SubSeq(id, 1, i - 1))

\* C9 (SpecCtor): Machine(...) raises when block_number is not the block
\* the id encodes.
CtorRejectsBlockMismatch ==
    (request.op = "Machine.__init__" /\ ~IsNone(response)) =>
        (BlockPrefix(request.id) # request.block_number => ~Get(response).ok)

\* C10 (SpecRoundTrip): from_dict(to_dict(m)) has m's id, block_number,
\* status, history, estimated finish time and annotation.
RoundTrip ==
    request.op = "Machine.from_dict" =>
        LET r == Get(response)
            m == request.machine
        IN  /\ r.ok
            /\ r.value.id = m.id
            /\ r.value.block_number = m.block_number
            /\ r.value.status = m.status
            /\ Len(r.value.status_history) = Len(m.status_history)
            /\ \A i \in 1..Len(m.status_history) :
                  /\ r.value.status_history[i].status = m.status_history[i].status
                  /\ r.value.status_history[i].timestamp = m.status_history[i].timestamp
                  /\ r.value.status_history[i].user = m.status_history[i].user
            /\ r.value.estimated_finish_time = m.estimated_finish_time
            /\ r.value.telegram_message = m.telegram_message

RoundTripWitness ==
    /\ request.op = "Machine.from_dict"
    /\ Len(request.machine.status_history) = 2
    /\ request.machine.status_history[1].timestamp.microsecond # 0
    /\ request.machine.status_history[2].timestamp.microsecond = 0
    /\ request.machine.telegram_message = Some(TelegramMessage("", None))
    /\ ~IsNone(request.machine.estimated_finish_time)
    /\ Get(response).ok

\* C11 (SpecMachine): status updates and time updates are independent.  A
\* step that calls update_status leaves the machine's estimated finish time,
\* remaining time and annotation as they were; a step that sets the
\* estimated finish time or the remaining time, accepted or rejected, leaves
\* the status as it was and appends no history entry.
StatusAndTimeIndependent ==
    [][LET before == TheMachine
           after == Get(get_by_id(machines', Id57W4))
       IN  /\ request'.op = "Machine.update_status" =>
                 /\ after.estimated_finish_time = before.estimated_finish_time
                 /\ after.remaining_time_seconds = before.remaining_time_seconds
                 /\ after.telegram_message = before.telegram_message
           /\ request'.op \in {"Machine.estimated_finish_time",
                               "Machine.remaining_time_seconds"} =>
                 /\ after.status = before.status
                 /\ after.status_history = before.status_history]_vars

\* Two status updates were made around the three settings, which are all
\* still in place.
StatusAndTimeIndependentWitness ==
    /\ request.op = "Machine.update_status"
    /\ Len(calls) = 2
    /\ TheMachine.remaining_time_seconds = Some(300)
    /\ TheMachine.estimated_finish_time = Some(isoformat(Instant(1)))
    /\ ~IsNone(TheMachine.telegram_message)

\* C12 (SpecFleet): after any sequence of create, update, delete and bulk
\* initialization the registry holds at most one machine per id, and the
\* machine stored under key k has id k.
OneMachinePerId ==
    /\ \A i, j \in 1..Len(machines) : machines[i].key = machines[j].key => i = j
    /\ \A i \in 1..Len(machines) : machines[i].value.id = machines[i].key
    /\ \A i, j \in 1..Len(get_all(machines)) :
          get_all(machines)[i].id = get_all(machines)[j].id => i = j

\* A delete has just acted on a registry that a bulk initialization, a
\* create of an id it does not generate and an update have acted on.
OneMachinePerIdWitness ==
    /\ request.op = "MachineStorage.delete"
    /\ response = Some(TRUE)
    /\ Len(machines) = 51
    /\ Id55W12 \in DictKeys(machines)
    /\ Get(get_by_id(machines, Id55W12)).status = "IN_USE"

\* The create bodies that pass validation: the four indexed keys are
\* present, the block is one of 55, 57, 59 and the status is a known tag.
ValidPostData ==
    {data \in PostData :
        /\ {"id", "block_number", "status", "telegram_message"} \subseteq DOMAIN data
        /\ data.block_number \in {55, 57, 59}
        /\ data.status \in {"available", "paidFor", "inUse", "pendingUnload", "outOfOrder"}}

\* C13 (Spec): the registry's create is a silent upsert and the HTTP layer
\* enforces "must not already exist".  MachineStorage.create stores the
\* machine under its id whether or not the id is taken, replacing what was
\* there and touching nothing else.  A create request for an id already
\* registered answers 409 and one whose body fails validation (no id,
\* invalid block, unknown status tag, missing required key) answers 400,
\* both with the registry unchanged; any other answers 201 and adds
\* exactly one machine, under the id of the body.
CreateUpsertAndConflict ==
    [][/\ request'.op = "MachineStorage.create" =>
             LET m == request'.machine
             IN  /\ get_by_id(machines', m.id) = Some(m)
                 /\ DictKeys(machines') = DictKeys(machines) \cup {m.id}
                 /\ \A k \in DictKeys(machines) \ {m.id} :
                       get_by_id(machines', k) = get_by_id(machines, k)
       /\ request'.op = "MachineListResource.post" =>
             LET data == request'.data
                 code == Get(response').code
             IN  IF "id" \in DOMAIN data /\ data.id \in DictKeys(machines)
                 THEN code = 409 /\ machines' = machines
                 ELSE IF data \notin ValidPostData
                 THEN code = 400 /\ machines' = machines
                 ELSE /\ code = 201
                      /\ Len(machines') = Len(machines) + 1
                      /\ DictKeys(machines') = DictKeys(machines) \cup {data.id}
                      /\ Get(get_by_id(machines', data.id)).id = data.id
                      /\ \A k \in DictKeys(machines) :
                            get_by_id(machines', k) = get_by_id(machines, k)]_vars

\* A create request was refused with 409 for a machine that has been
\* updated since it was registered, next to another registered machine.
CreateUpsertAndConflictWitness ==
    /\ request.op = "MachineListResource.post"
    /\ Get(response).code = 409
    /\ request.data.id = Id55W1
    /\ Len(machines) = 2
    /\ Get(get_by_id(machines, Id55W1)).status = "IN_USE"

\* The handlers that take a machine id from the path.
PerMachineOps ==
    {"MachineResource.get", "MachineResource.delete", "MachineStatusResource.put",
     "MachineTimeResource.patch", "MachineTelegramResource.put",
     "MachineTelegramResource.delete", "MachineHistoryResource.get"}

\* C14 (Spec): every per-machine request (get, delete, status update, time
\* update, annotation set, annotation clear, history read) that names an id
\* absent from the registry is answered 404 and leaves the registry
\* unchanged; no machine appears under that id.
AbsentIdNotFound ==
    [][(request'.op \in PerMachineOps /\ request'.machine_id \notin DictKeys(machines)) =>
          /\ Get(response').code = 404
          /\ machines' = machines
          /\ request'.machine_id \notin DictKeys(machines')]_vars

\* A well-formed status update was answered 404 while another machine is
\* registered.
AbsentIdNotFoundWitness ==
    /\ request.op = "MachineStatusResource.put"
    /\ request.data = [status |-> "inUse", user |-> "alice"]
    /\ Get(response).code = 404
    /\ DictKeys(machines) = {Id55W12}

\* C15 (Spec): a status update request for a registered machine whose
\* status tag is none of available, paidFor, inUse, pendingUnload,
\* outOfOrder, or whose body lacks status or user, is answered 400 and
\* leaves the machine's status, history, time estimate and annotation (the
\* whole registry) unchanged; no history entry is appended.
RejectedStatusUpdate ==
    [][(/\ request'.op = "MachineStatusResource.put"
        /\ request'.machine_id \in DictKeys(machines)
        /\ \/ "status" \notin DOMAIN request'.data
           \/ "user" \notin DOMAIN request'.data
           \/ request'.data.status \notin
                 {"available", "paidFor", "inUse", "pendingUnload", "outOfOrder"}) =>
          /\ Get(response').code = 400
          /\ machines' = machines]_vars

\* An unknown tag was refused for a machine that has a history entry, a
\* remaining time and an annotation.
RejectedStatusUpdateWitness ==
    /\ request.op = "MachineStatusResource.put"
    /\ request.data = [status |-> "bogus", user |-> "alice"]
    /\ Get(response).code = 400
    /\ Id55W1 \in DictKeys(machines)
    /\ Len(Get(get_by_id(machines, Id55W1)).status_history) = 1
    /\ ~IsNone(Get(get_by_id(machines, Id55W1)).remaining_time_seconds)
    /\ ~IsNone(Get(get_by_id(machines, Id55W1)).telegram_message)

\* The text is a decimal numeral: digits, after an optional minus sign.
IsNumeral(text) ==
    \E k \in 0..1 :
       /\ k < Len(text)
       /\ k = 1 => text[1] = "-"
       /\ \A i \in (k + 1)..Len(text) : text[i] \in Digits

NumeralValue(text) ==
    IF text[1] = "-" THEN 0 - IntOf(SubSeq(text, 2, Len(text))) ELSE IntOf(text)

\* C19 (SpecIds): identifier parsing.  When the id holds no 'W' and no 'D',
\* type and number both fail with ValueError.  Otherwise type is washer or
\* dryer as the leftmost 'W' or 'D' of the id says, and number is the
\* integer value of everything after that leftmost marker, or fails with
\* ValueError when that rest is not a numeral; what stands before the
\* marker plays no part.
IdParsing ==
    request.op \in {"Machine.type", "Machine.number"} =>
       LET id == request.id
           leftmost == {i \in 1..Len(id) :
                           /\ id[i] \in {"W", "D"}
                           /\ \A j \in 1..(i - 1) : id[j] \notin {"W", "D"}}
       IN  IF leftmost = {} THEN response = Raise("ValueError")
           ELSE \A i \in leftmost :
                   LET rest == SubSeq(id, i + 1, Len(id))
                   IN  /\ request.op = "Machine.type" =>
                             response = Ok(IF id[i] = "W" THEN "WASHER" ELSE "DRYER")
                       /\ request.op = "Machine.number" =>
                             IF IsNumeral(rest) THEN response = Ok(NumeralValue(rest))
                             ELSE response = Raise("ValueError")

\* The number of an id with a prefix that is no block number and a second
\* marker after the first was asked for, and failed on the rest "D7".
IdParsingWitness ==
    /\ request.op = "Machine.number"
    /\ request.id = <<"W", "D", "7">>
    /\ response = Raise("ValueError")

\* C17 (SpecType): get_by_type(t) returns exactly the registered machines
\* whose identifier-derived type (washer or dryer, by the first 'W' or 'D'
\* of the id) is the type t names, in registry order, whatever ids the
\* registry holds and whatever string t is.  The comparison with t ignores
\* case, as the lookup does.
GetByTypeUsesDerivedType ==
    request.op = "MachineStorage.get_by_type" =>
       response = Some(DictValues(SelectSeq(machines, LAMBDA e :
                          /\ Machine_type(e.value).ok
                          /\ TypeValue(Machine_type(e.value).value)
                                = lower(request.machine_type))))

\* C20 (SpecMachine): the status transition graph is open.  Whatever the
\* status s of the machine and whatever status s2 is asked for, s2 = s
\* included, update_status(s2) is accepted: it raises nothing, the status
\* becomes s2 and the history grows by exactly one entry, which records s2.
\* Every one of the 25 pairs can be taken while calls remain.
OpenTransitionGraph ==
    /\ [](Len(calls) < MaxCalls =>
             \A s2 \in MachineStatus : ENABLED MachineUpdateStatus(s2, "alice"))
    /\ [][request'.op = "Machine.update_status" =>
             LET before == TheMachine
                 after == Get(get_by_id(machines', Id57W4))
             IN  /\ IsNone(response')
                 /\ after.status = request'.new_status
                 /\ Len(after.status_history) = Len(before.status_history) + 1
                 /\ SubSeq(after.status_history, 1, Len(before.status_history))
                       = before.status_history
                 /\ Last(after.status_history).status = request'.new_status]_vars

\* The machine was put into use, and then put into use again; both calls
\* are recorded.
OpenTransitionGraphWitness ==
    /\ request.op = "Machine.update_status"
    /\ Len(TheMachine.status_history) = 2
    /\ TheMachine.status_history[1].status = "IN_USE"
    /\ TheMachine.status_history[2].status = "IN_USE"
    /\ TheMachine.status = "IN_USE"
    /\ calls[1].new_status = "IN_USE"

\* What the registry's readers see after the handler of thread frame f has
\* made its writes to machine m.
Written(f, m) ==
    CASE f.op = "MachineStatusResource.put" ->
            m.status = "IN_USE" /\ Last(m.status_history).status = "IN_USE"
      [] f.op = "MachineTimeResource.patch" -> m.remaining_time_seconds = Some(300)
      [] f.op = "MachineTelegramResource.put" ->
            m.telegram_message = Some(TelegramMessage("washer 1 is free", None))
      [] f.op = "MachineTelegramResource.delete" -> m.telegram_message = None

\* C16 (SpecShared): the registry holds live references.  When a thread has
\* fetched the machine registered under k and writes to it (status, time
\* estimate, annotation), the write is seen at once, with no update call
\* and the registry's dict untouched, by get_by_id(k), get_all and
\* get_by_status.  When the thread then calls update with the machine it
\* fetched and that machine is still the one registered under its id, the
\* call changes neither the dict nor any machine.
LiveReferences ==
    [][\A p \in Procs :
          LET f == frames[p]
              k == Get(f.machine_id)
              seen == Deref(machines', heap')
          IN  /\ (/\ f.pc = "fetched" /\ frames'[p].pc = "mutated"
                  /\ get_by_id(machines, k) = f.machine) =>
                    /\ machines' = machines
                    /\ Written(f, Get(get_by_id(seen, k)))
                    /\ \E i \in 1..Len(get_all(seen)) :
                          get_all(seen)[i].id = k /\ Written(f, get_all(seen)[i])
                    /\ f.op = "MachineStatusResource.put" =>
                          \E i \in 1..Len(get_by_status(seen, "IN_USE")) :
                             get_by_status(seen, "IN_USE")[i].id = k
              /\ (/\ f.pc = "mutated" /\ frames'[p].pc = "idle"
                  /\ get_by_id(machines, k) = f.machine) =>
                    /\ machines' = machines
                    /\ heap' = heap]_vars

\* A thread has written IN_USE to the machine it fetched and has not called
\* update yet; the machine is the one registered under its id, after
\* another machine.
LiveReferencesWitness ==
    /\ frames[1].pc = "mutated"
    /\ frames[1].op = "MachineStatusResource.put"
    /\ get_by_id(machines, Id55W1) = frames[1].machine
    /\ heap[Get(frames[1].machine)].status = "IN_USE"
    /\ Len(machines) = 2
    /\ machines[2].key = Id55W1

\* C18 (SpecShared): get_all returns a snapshot.  The machines met when
\* iterating a value that get_all returned, and their order, are the same
\* after a create, a delete or a bulk initialization (or any other step
\* that is not the holder's next get_all call) as before it.
GetAllSnapshot ==
    [][\A p \in Procs :
          (~IsNone(frames[p].listing) /\ request'.op # "MachineStorage.get_all") =>
             /\ ~IsNone(frames'[p].listing)
             /\ iterate(Get(frames'[p].listing), machines')
                   = iterate(Get(frames[p].listing), machines)]_vars

\* A listing of two machines is held while the registry, after a delete
\* and a bulk initialization, holds neither of them but a machine created
\* since.
GetAllSnapshotWitness ==
    /\ ~IsNone(frames[1].listing)
    /\ Len(Get(frames[1].listing)) = 2
    /\ request.op = "MachineStorage.initialize_default_machines"
    /\ Len(machines) = 1
    /\ Range(Get(frames[1].listing)) \cap Range(DictValues(machines)) = {}

\* C21 (SpecMachine): setting the annotation replaces it wholesale and
\* touches nothing else.  After a step that sets the annotation the machine
\* holds exactly the value set (None after a clear), whatever annotation it
\* held before, and its status, history, estimated finish time and
\* remaining time are as they were.
AnnotationReplaced ==
    [][request'.op = "Machine.telegram_message" =>
          LET before == TheMachine
              after == Get(get_by_id(machines', Id57W4))
          IN  /\ after.telegram_message = request'.message
              /\ after = [before EXCEPT !.telegram_message = request'.message]
              /\ after.status = before.status
              /\ after.status_history = before.status_history
              /\ after.estimated_finish_time = before.estimated_finish_time
              /\ after.remaining_time_seconds = before.remaining_time_seconds]_vars

\* An annotation without a link has just been set on a machine that has
\* two history entries, an estimated finish time and a remaining time.
AnnotationReplacedWitness ==
    /\ request.op = "Machine.telegram_message"
    /\ TheMachine.telegram_message = Some(TelegramMessage("washer 4 is free", None))
    /\ Len(TheMachine.status_history) = 2
    /\ ~IsNone(TheMachine.estimated_finish_time)
    /\ ~IsNone(TheMachine.remaining_time_seconds)

\* C23 (Spec): in every reachable state the estimated finish time of every
\* registered machine, however the machine was created, is absent or a
\* valid ISO 8601 date-time.
EstimateAlwaysValid ==
    \A i \in 1..Len(machines) :
       LET est == machines[i].value.estimated_finish_time
       IN  IsNone(est) \/ fromisoformat(Get(est)).ok

\* dt1 <= dt2 on instants.
NotAfter(dt1, dt2) ==
    \/ dt1.second < dt2.second
    \/ dt1.second = dt2.second /\ dt1.microsecond <= dt2.microsecond

\* C25 (SpecMachine): the timestamp of the entry update_status appends is
\* what the clock reads at the call; the caller passes a status and a user
\* and nothing else.  The clock never going back, the timestamps of a
\* machine that started with an empty history are non-decreasing in
\* history order.
TimestampsFromClock ==
    /\ [][request'.op = "Machine.update_status" =>
             /\ DOMAIN request' = {"op", "new_status", "user"}
             /\ Last(Get(get_by_id(machines', Id57W4)).status_history).timestamp = Instant(now')
             /\ now' >= now]_vars
    /\ [](\A i, j \in 1..Len(TheMachine.status_history) :
             i <= j => NotAfter(TheMachine.status_history[i].timestamp,
                                TheMachine.status_history[j].timestamp))

\* Two calls were made, the second at a later reading of the clock than the
\* first.
TimestampsFromClockWitness ==
    /\ request.op = "Machine.update_status"
    /\ Len(TheMachine.status_history) = 2
    /\ TheMachine.status_history[1].timestamp = Instant(0)
    /\ TheMachine.status_history[2].timestamp = Instant(1)

\* C28 (SpecShared): once a delete of id k has completed, k stays absent
\* until an explicit create of k or a bulk initialization: no other step,
\* and in particular no write-back of a status, time or annotation request
\* that fetched the machine before the delete, puts k back.
DeletedStaysAbsent ==
    [][\A k \in ReqIds :
          (k \notin DictKeys(machines) /\ k \in DictKeys(machines')) =>
             request'.op \in {"MachineStorage.create",
                              "MachineStorage.initialize_default_machines"}]_vars

\* C22 (SpecRace): a handler's fetch, mutate, write back is not atomic.  The
\* write-back installs the object the handler fetched whatever the registry
\* holds under that id by then; an object that replaced it in between, with
\* every completed update made to it, is then out of the registry.
WriteBackInstallsFetched ==
    [][\A p \in Threads :
          (frames[p].pc = "mutated" /\ frames'[p].pc = "idle") =>
             LET k == Get(frames[p].machine_id)
                 r == Get(frames[p].machine)
             IN  /\ get_by_id(machines', k) = Some(r)
                 /\ \A r2 \in 1..Len(heap) :
                       (get_by_id(machines, k) = Some(r2) /\ r2 # r) =>
                          r2 \notin Range(DictValues(machines'))]_vars

\* A lost update: every request has completed; a status request put the
\* machine of the second bulk initialization into use and was answered;
\* the registry holds the machine of the first bulk initialization, which
\* is available and has no history entry.
WriteBackInstallsFetchedWitness ==
    /\ \A p \in Threads : frames[p].pc = "idle"
    /\ Len(heap) = 2
    /\ heap[2].id = Id55W1
    /\ heap[2].status = "IN_USE"
    /\ Len(heap[2].status_history) = 1
    /\ get_by_id(machines, Id55W1) = Some(1)
    /\ heap[1].status = "AVAILABLE"
    /\ heap[1].status_history = <<>>
    /\ ~IsNone(heap[1].telegram_message)

\* C29 (SpecRace): for every machine created with an empty history, in
\* every state in which no update_status call on it is between its two
\* statements and its history is not empty, the status is the status of
\* the last history entry, however the calls of two threads interleave.
StatusIsLastEntry ==
    \A r \in 1..Len(heap) :
       (/\ \A p \in Threads : ~(frames[p].pc = "assigned" /\ frames[p].machine = Some(r))
        /\ Len(heap[r].status_history) > 0) =>
          heap[r].status = Last(heap[r].status_history).status

\* C30 (SpecHistory): status histories are not shared between machines.
\* For machines made by bulk initialization or constructed without a
\* history, an update_status call on one machine leaves the history and
\* the status of every other machine as they were.
HistoriesNotShared ==
    [][request'.op = "Machine.update_status" =>
          \A k \in DictKeys(machines) \ {request'.machine_id} :
             LET before == WithHistory(Get(get_by_id(machines, k)), heap)
                 after == WithHistory(Get(get_by_id(machines', k)), heap')
             IN  /\ after.status_history = before.status_history
                 /\ after.status = before.status]_vars

\* Two machines of a bulk initialization and one constructed alone are
\* registered; the dryer has just been updated for the second time and the
\* washers have no entry.
HistoriesNotSharedWitness ==
    /\ request.op = "Machine.update_status"
    /\ request.machine_id = Id55D1
    /\ DictKeys(machines) = HistoryIds
    /\ Len(WithHistory(Get(get_by_id(machines, Id55D1)), heap).status_history) = 2
    /\ WithHistory(Get(get_by_id(machines, Id55W1)), heap).status_history = <<>>
    /\ WithHistory(Get(get_by_id(machines, Id55W12)), heap).status_history = <<>>

\* The replies that are valid JSON objects, are not marked relevant=false,
\* carry machine_id and status, with a machine_id in the language of
\* ^(55|57|59)[WD]\d+$ (as re.match reads it: a newline may end the
\* string), a status among the five tags and a confidence that is not
\* 'low': picked by hand, the first four of Replies.
WellFormedReplies == {Replies[i].text : i \in 1..4}

WellFormed(completion) ==
    /\ completion.ok
    /\ ~IsNone(completion.value)
    /\ Get(completion.value) \in WellFormedReplies

\* The machine ids of Replies in the language of the pattern.
PatternIds == {Id55W1, Id55W12, <<"5", "5", "W", "1", "\n">>}

AnnotationOf(d, k) ==
    IF k \in DictKeys(d) THEN Get(get_by_id(d, k)).telegram_message ELSE None

\* C26 (SpecMonitor): update_machine_status sends GET machine, PUT status,
\* PUT annotation in that order and for one machine id.  The status PUT is
\* sent only on a 200 answer to the GET, the annotation PUT only on a 200
\* answer to the status PUT, with the first 200 characters of the message.
\* Any other answer to the GET or to the status PUT ends the call with
\* False and without a further request; whatever the answer to the
\* annotation PUT, the call ends with True.  The API sets an annotation
\* only in serving an annotation PUT that followed an accepted status PUT.
ThreeStepProtocol ==
    /\ [](/\ Len(calls) <= 3
          /\ \A i \in DOMAIN calls :
                /\ calls[i].method = <<"GET", "PUT", "PUT">>[i]
                /\ calls[i].resource = <<"machine", "status", "telegram">>[i]
                /\ calls[i].machine_id = calls[1].machine_id
          /\ frames.success = Some(TRUE) => Len(calls) = 3)
    /\ [][Len(calls') > Len(calls) /\ Len(calls) >= 1 =>
             /\ Len(calls') = Len(calls) + 1
             /\ ~IsNone(response)
             /\ Get(response).code = 200
             /\ request.op = IF Len(calls) = 1 THEN "MachineResource.get"
                             ELSE "MachineStatusResource.put"
             /\ Len(calls') = 3 =>
                   LET sent == Get(calls'[3].json).message
                       text == Get(frames.message).message
                   IN  /\ IsPrefix(sent, text)
                       /\ Len(sent) = IF Len(text) > 200 THEN 200 ELSE Len(text)]_vars
    /\ [][/\ frames.pc \in {"get", "put"}
          /\ frames'.pc # frames.pc
          /\ ~IsNone(response)
          /\ Get(response).code # 200
          => /\ calls' = calls
             /\ frames'.pc = "idle"
             /\ frames'.success = Some(FALSE)]_vars
    /\ [][frames.pc = "telegram" /\ frames'.pc # "telegram" /\ ~IsNone(response)
          => frames'.pc = "idle" /\ frames'.success = Some(TRUE)]_vars
    /\ [][\A k \in TargetIds :
             LET after == AnnotationOf(machines', k)
             IN  (~IsNone(after) /\ after # AnnotationOf(machines, k)) =>
                    /\ Len(calls) = 3
                    /\ frames.pc = "telegram"
                    /\ request.op = "MachineStatusResource.put"
                    /\ Get(after).message = Get(calls[3].json).message]_vars

\* The call returned True although the annotation PUT was answered 500;
\* the message had more than 200 characters and 200 of them were sent.
ThreeStepProtocolWitness ==
    /\ frames.pc = "idle"
    /\ frames.success = Some(TRUE)
    /\ Get(response).code = 500
    /\ Len(calls) = 3
    /\ Len(Get(frames.message).message) > 200
    /\ Len(Get(calls[3].json).message) = 200

\* C24 (SpecMonitor): once the language model has returned a well-formed
\* result for a message of the monitored topic that passed the filter,
\* process_message has called update_machine_status for the result's
\* machine id and status: its first request is out.
WellFormedResultSubmitted ==
    (~IsNone(frames.parsed) /\ WellFormed(Get(frames.completion))) =>
        /\ Len(calls) >= 1
        /\ calls[1].machine_id = Get(frames.parsed).machine_id.text

\* The status a tag names.
StatusOfTag(tag) == CHOOSE s \in MachineStatus : StatusValue(s) = tag

\* C32 (SpecType), as stated, a parameter being given when the query has
\* it: with a status parameter the answer is get_by_status(status), or 400
\* for an invalid tag, whatever type and block are; with a type and no
\* status it is get_by_type(type) whatever block is; with a block alone
\* that is not 55, 57 or 59 it is 400; the registry is left as it was.
ListFilterPrecedence ==
    [][request'.op = "MachineListResource.get" =>
          LET args == request'.args
              listed(ms) == Get(response').code = 200 /\ Get(response').body = to_dicts(ms)
          IN  /\ machines' = machines
              /\ "status" \in DOMAIN args =>
                    IF args.status \in {StatusValue(s) : s \in MachineStatus}
                    THEN listed(get_by_status(machines, StatusOfTag(args.status)))
                    ELSE Get(response').code = 400
              /\ ("status" \notin DOMAIN args /\ "type" \in DOMAIN args) =>
                    listed(get_by_type(machines, args.type))
              /\ (DOMAIN args = {"block"}
                    /\ args.block \notin {<<"5", "5">>, <<"5", "7">>, <<"5", "9">>}) =>
                    Get(response').code = 400]_vars

\* C32 (SpecType), amended: a parameter counts as given when the query has
\* it with a value that is not empty; one with an empty value is treated
\* like an absent one.  Among the given parameters status decides before
\* type and type before block: the answer is get_by_status(status), or 400
\* for an invalid tag; else get_by_type(type); else get_by_block(block), or
\* 400 for a block that is not 55, 57 or 59; with no parameter given it is
\* the whole registry.  The registry is left as it was.
ListFilterPrecedenceNonEmpty ==
    [][request'.op = "MachineListResource.get" =>
          LET args == request'.args
              has_status == "status" \in DOMAIN args /\ args.status # ""
              has_type == "type" \in DOMAIN args /\ args.type # ""
              has_block == "block" \in DOMAIN args /\ args.block # <<>>
              listed(ms) == Get(response').code = 200 /\ Get(response').body = to_dicts(ms)
          IN  /\ machines' = machines
              /\ has_status =>
                    IF args.status \in {StatusValue(s) : s \in MachineStatus}
                    THEN listed(get_by_status(machines, StatusOfTag(args.status)))
                    ELSE Get(response').code = 400
              /\ (~has_status /\ has_type) => listed(get_by_type(machines, args.type))
              /\ (~has_status /\ ~has_type /\ has_block) =>
                    IF args.block = <<"5", "5">> THEN listed(get_by_block(machines, 55))
                    ELSE IF args.block = <<"5", "7">> THEN listed(get_by_block(machines, 57))
                    ELSE IF args.block = <<"5", "9">> THEN listed(get_by_block(machines, 59))
                    ELSE Get(response').code = 400
              /\ (~has_status /\ ~has_type /\ ~has_block) => listed(get_all(machines))]_vars

\* A request with status=available, type=dryer and block=60 was answered
\* with the available machines, the washer 57W4 alone, although the
\* registry holds the dryer 59D6 and 60 is no block.
ListFilterPrecedenceNonEmptyWitness ==
    /\ request.op = "MachineListResource.get"
    /\ request.args = [status |-> "available", type |-> "dryer", block |-> <<"6", "0">>]
    /\ DictKeys(machines) = {Id57W4, Id59D6}
    /\ Get(response).code = 200
    /\ Len(Get(response).body) = 1
    /\ Get(response).body[1].id = Id57W4

\* C31 (SpecPoll): last_message_id never decreases; after a poll that
\* fetched messages it is the maximum of its value when the poll began and
\* the ids of the fetched messages; and, the fetch giving only messages
\* with an id above last_message_id, no id passed to process_message by the
\* current poll (the messages before position i and the one in progress)
\* was passed to it by an earlier poll.
LastMessageIdAdvances ==
    /\ [][heap'.last_message_id >= heap.last_message_id]_vars
    /\ [](LET fetched == {heap.messages[j].id : j \in DOMAIN heap.messages}
              greatest == CHOOSE a \in fetched \cup {heap.start} :
                              \A b \in fetched \cup {heap.start} : b <= a
          IN  (heap.pc = "wait" /\ fetched # {}) => heap.last_message_id = greatest)
    /\ [](LET passed == {heap.messages[j].id : j \in 1..(heap.i - 1)}
                           \cup (IF IsNone(frames.message) THEN {}
                                 ELSE {Get(frames.message).id})
          IN  passed \cap heap.earlier = {})

\* A first poll fetched message 1; a second has fetched messages 3 and 2,
\* in that order, passed both to process_message and ended with
\* last_message_id = 3.
LastMessageIdAdvancesWitness ==
    /\ heap.pc = "wait"
    /\ heap.earlier = {1}
    /\ heap.start = 1
    /\ Len(heap.messages) = 2
    /\ heap.messages[1].id = 3
    /\ heap.messages[2].id = 2
    /\ heap.i = 3
    /\ heap.last_message_id = 3

====
